---- MODULE Spec2Model ----
(***************************************************************************)
(* axiomterm: the Screen model (types.rs), the operation classifier        *)
(* (types.rs), the per-row render cache (renderer.rs), the modal input     *)
(* dispatcher (input.rs, app.rs), the worker thread (shell.rs), the        *)
(* critical sections of the shared state, the configuration reload         *)
(* (app.rs) and macro resolution (lua_bridge.rs).                          *)
(*                                                                         *)
(* The specifications share the variables:                                 *)
(*   SpecScreen    - calls of the Screen mutators, with the log of the     *)
(*                   operations they return;                               *)
(*   SpecCursor    - SpecScreen with the calls of set_cursor;              *)
(*   SpecTokenize  - tokenize_command applied to a command line (utils.rs);*)
(*   Spec          - a producer mutates the shared Screen and sends the    *)
(*                   returned operation; the presentation side receives,   *)
(*                   classifies and hands each operation to the renderer,  *)
(*                   and runs draw passes;                                 *)
(*   SpecClassify  - the classifier applied to an operation;               *)
(*   SpecDispatch  - the dispatcher maps the input events of a frame       *)
(*                   through the active mode's binding table;              *)
(*   SpecSuppress  - the dispatcher under bindings of one key to every     *)
(*                   kind of target;                                       *)
(*   SpecWorker    - the worker thread handles the Actions of an input     *)
(*                   session and runs their commands (shell.rs);           *)
(*   SpecMode      - SpecWorker with the key intercept of main.rs;         *)
(*   SpecInput     - the frames' input part beside the worker: the mode    *)
(*                   read once per frame, each event mapped and sent;      *)
(*   SpecEdit      - the two writers of the input buffer in Insert mode:   *)
(*                   the TextEdit of the frame and the worker;             *)
(*   SpecFrame,    - SpecWorker with the presentation loop's frames:       *)
(*   SpecFrameLive   drain until the channel is empty, then draw (app.rs); *)
(*   SpecLock      - the worker, the reader threads of a child and the     *)
(*                   frames, one lock, send, mutation or call at a time;   *)
(*   SpecLockLive  - SpecLock under fair scheduling of the threads;        *)
(*   SpecReload,   - the watcher's signals and the frames that poll them;  *)
(*   SpecReloadLive  with frames that keep coming;                         *)
(*   SpecMacro     - a LuaEngine resolving macros.                         *)
(***************************************************************************)
EXTENDS Integers, Sequences, FiniteSets, TLC

VARIABLES
    screen,            \* ShellState.screen : Screen {lines, cursor, meta.dirty}
    returned,          \* the ScreenOperations returned by the mutator calls so far
    output_chan,       \* ShellEvent::Operation values sent on output_tx, not yet received
    renderer,          \* the TerminalRenderer {metrics, screen_cache, last_render_dims,
                       \*   cached_origin, cursor_optimization_mode}
    surface,           \* when the step just taken is a draw pass: the rows it laid out
                       \*   and what it handed to the painter
    last_drawn,        \* the Screen lines the most recent draw pass was given
    handled,           \* what the renderer's handlers were given since the last draw pass
    classified,        \* an operation with the category and metadata computed for it
    mode,              \* ShellState.mode
    mode_definitions,  \* ShellState.mode_definitions
    dispatched,        \* what the last dispatcher call was given and returned; under
                       \*   SpecInput and SpecEdit, where the frame is in its input part
    shell,             \* the ShellState fields the worker reads and writes: prompt,
                       \*   colours, input_buffer, current_dir, window title
    action_chan,       \* Actions sent on action_tx, not yet received by the worker
    worker,            \* the worker thread: where it is in its loop, and the Actions
                       \*   it handled and operations it sent since it last received
                       \*   an Action with an empty input buffer
    session,           \* the Actions the presentation side is still going to send
    frame,             \* the presentation loop: where it is in update, how many operations
                       \*   were queued when the frame began and how many it has received
                       \*   since, and all the operations it has received
    lock,              \* the thread that holds the Mutex of the ShellState, or "free"
    threads,           \* for each thread, the steps of its code it still has to take,
                       \*   the operation its last Screen mutation returned, and the
                       \*   Screen mutations it has made since it took the lock
    applied,           \* the operations returned by the Screen mutations, in the order
                       \*   the mutations were made
    reload,            \* the clock, TerminalApp.last_reload, the signals in config_rx and
                       \*   the reloads sent
    engine,            \* a LuaEngine: the Lua globals, the metrics, and the calls of
                       \*   resolve_macro with what they returned
    tokenized          \* what the last call of tokenize_command was given and returned

screenVars == <<screen, returned>>
renderVars == <<output_chan, renderer, surface, last_drawn, handled>>
dispatchVars == <<mode, mode_definitions, dispatched>>
workerVars == <<shell, action_chan, worker, session>>
vars == <<screen, returned, output_chan, renderer, surface, last_drawn, handled,
          classified, mode, mode_definitions, dispatched,
          shell, action_chan, worker, session, frame, lock, threads, applied,
          reload, engine, tokenized>>
lockVars == <<lock, threads, applied>>
auxVars == <<reload, engine, tokenized>>

-----------------------------------------------------------------------------
(* Bounds of the model *)

\* most rows the Screen grows to under Spec
MaxLines == 2
\* number of mutator calls in a run of SpecScreen
MaxCalls == 4
\* most operations in flight on the operation channel
MaxChan == 1
\* most Visual operations handled between two draw passes
MaxVisualRun == 2
\* largest row and largest cursor coordinate of the operations handed to the classifier
MaxOpRow == 30
MaxOpCursor == 5
\* most bindings in a mode-definition list, over all its definitions
MaxBindings == 2
\* most raw events in the input of one frame
MaxEvents == 1
\* Actions sent on action_tx and not yet received by the worker
MaxActions == 2
\* lines the children spawned by one command write
MaxStream == 1
\* the characters the TextEdit can have put into the input buffer
MaxTyped == 1
\* the last instant of a run of SpecReload, in milliseconds
MaxTime == 1200
\* the signals the watcher sends in a run of SpecReload
MaxSignals == 2
\* the calls of resolve_macro in a run of SpecMacro
MaxResolves == 2
\* the characters of a command line handed to the tokenizer under SpecTokenize
MaxInput == 5
\* the input events one frame captures under SpecInput
MaxCaptured == 2
\* the frames of a run of SpecInput
MaxInputFrames == 2

-----------------------------------------------------------------------------
(* types.rs: Cell, Line, Cursor *)

BLACK == "BLACK"
RED == "RED"
LIGHT_GRAY == "LIGHT_GRAY"

CellAttr_default == [bold |-> FALSE, underline |-> FALSE]

Cell_new(ch, fg) == [ch |-> ch, fg |-> fg, bg |-> BLACK, attrs |-> CellAttr_default]

Line_from_string(s, fg) == [k \in 1..Len(s) |-> Cell_new(s[k], fg)]

Cursor_default == [row |-> 0, col |-> 0]

\* the Lines, Cursors and rows the mutators are called with (a string is a sequence
\* of characters); rows reach past the end of the Screen
LineInputs == {Line_from_string(<<"a">>, LIGHT_GRAY), Line_from_string(<<"b">>, LIGHT_GRAY)}
CursorInputs == {[row |-> 1, col |-> 1]}
RowInputs == 0..MaxLines

-----------------------------------------------------------------------------
(* types.rs: ScreenOperation, OperationCategory, LineImpact, OperationMetadata *)

PushLine(line) == [tag |-> "PushLine", line |-> line]
Clear == [tag |-> "Clear"]
SetCursor(cursor) == [tag |-> "SetCursor", cursor |-> cursor]
UpdateLine(row, line) == [tag |-> "UpdateLine", row |-> row, line |-> line]

Single(row) == [kind |-> "Single", row |-> row]
Multi(rows) == [kind |-> "Multi", rows |-> rows]
Unbounded == [kind |-> "Unbounded"]

category(op) ==
    CASE op.tag = "PushLine" -> "Structural"
      [] op.tag = "Clear" -> "Structural"
      [] op.tag = "SetCursor" -> "Cursor"
      [] op.tag = "UpdateLine" -> "Visual"

\* metadata with the row of UpdateLine dropped
metadata_update_row_dropped(op) ==
    CASE op.tag = "PushLine" -> [impact |-> Unbounded, caused_scroll |-> TRUE]
      [] op.tag = "Clear" -> [impact |-> Unbounded, caused_scroll |-> TRUE]
      [] op.tag = "SetCursor" -> [impact |-> Single(0), caused_scroll |-> FALSE]
      [] op.tag = "UpdateLine" -> [impact |-> Single(0), caused_scroll |-> FALSE]

\* metadata that names the cursor's row for SetCursor
metadata_cursor_row(op) ==
    CASE op.tag = "PushLine" -> [impact |-> Unbounded, caused_scroll |-> TRUE]
      [] op.tag = "Clear" -> [impact |-> Unbounded, caused_scroll |-> TRUE]
      [] op.tag = "SetCursor" -> [impact |-> Single(op.cursor.row), caused_scroll |-> FALSE]
      [] op.tag = "UpdateLine" -> [impact |-> Single(op.row), caused_scroll |-> FALSE]

metadata(op) ==
    CASE op.tag = "PushLine" -> [impact |-> Unbounded, caused_scroll |-> TRUE]
      [] op.tag = "Clear" -> [impact |-> Unbounded, caused_scroll |-> TRUE]
      [] op.tag = "SetCursor" -> [impact |-> Single(0), caused_scroll |-> FALSE]
      [] op.tag = "UpdateLine" -> [impact |-> Single(op.row), caused_scroll |-> FALSE]

-----------------------------------------------------------------------------
(* types.rs: Screen.  Rows are numbered from 0: row r is lines[r + 1].      *)
(* Each mutator gives the Screen after the call and the operation returned. *)

Screen_new == [lines |-> <<>>, cursor |-> Cursor_default, dirty |-> FALSE]

push_line(s, line) ==
    [screen |-> [s EXCEPT !.lines = Append(@, line), !.dirty = TRUE],
     op |-> PushLine(line)]

\* a clear that empties the lines and leaves the cursor where it is
clear_keeping_cursor(s) ==
    [screen |-> [s EXCEPT !.lines = <<>>, !.dirty = TRUE],
     op |-> Clear]

clear(s) ==
    [screen |-> [s EXCEPT !.lines = <<>>, !.cursor = Cursor_default, !.dirty = TRUE],
     op |-> Clear]

set_cursor(s, cursor) ==
    [screen |-> [s EXCEPT !.cursor = cursor, !.dirty = TRUE],
     op |-> SetCursor(cursor)]

\* an update_line that turns down a row past the end: the Screen stays as it is
update_line_strict(s, row, line) ==
    IF row < Len(s.lines)
    THEN [screen |-> [s EXCEPT !.lines[row + 1] = line, !.dirty = TRUE],
          op |-> UpdateLine(row, line)]
    ELSE IF row = Len(s.lines)
         THEN push_line(s, line)
         ELSE [screen |-> s, op |-> Clear]

update_line(s, row, line) ==
    IF row < Len(s.lines)
    THEN [screen |-> [s EXCEPT !.lines[row + 1] = line, !.dirty = TRUE],
          op |-> UpdateLine(row, line)]
    ELSE IF row = Len(s.lines)
         THEN push_line(s, line)
         ELSE \* the row is past the end: the line is pushed, meta.dirty is not written
              [screen |-> [s EXCEPT !.lines = Append(@, line)],
               op |-> PushLine(line)]

-----------------------------------------------------------------------------
(* renderer.rs: TerminalRenderer.  The renderer is a record; each method    *)
(* gives the renderer after the call.  The operation counters of            *)
(* RenderMetrics (structural_ops, visual_ops, cursor_ops) are written and   *)
(* only printed; dirty_line_count is the one field of it the code reads.    *)

\* usize::MAX, the "all dirty" mark of dirty_line_count (the largest integer of the
\* model checker stands for 2^64 - 1; the count itself never comes near it)
USIZE_MAX == 2147483647

None == [some |-> FALSE]
Some(v) == [some |-> TRUE, val |-> v]

TerminalRenderer_default ==
    [metrics |-> [dirty_line_count |-> 0],
     screen_cache |-> <<>>,
     last_render_dims |-> <<0, 0>>,
     cached_origin |-> [x |-> 0, y |-> 0],
     cursor_optimization_mode |-> TRUE]

\* a handler that marks everything dirty and leaves the entries in place
on_structural_change_keeps_entries(rd) ==
    [rd EXCEPT !.metrics.dirty_line_count = USIZE_MAX]

on_structural_change(rd) ==
    [rd EXCEPT !.screen_cache = <<>>,
               !.metrics.dirty_line_count = USIZE_MAX]

\* the dirty line count after the "Dirty Line Detection" match
DirtyAfter(count, impact) ==
    CASE impact.kind = "Single" -> IF count # USIZE_MAX THEN count + 1 ELSE count
      [] impact.kind = "Multi" -> IF count # USIZE_MAX THEN count + Len(impact.rows) ELSE count
      [] impact.kind = "Unbounded" -> USIZE_MAX

\* a handler without the single-row path: every Visual operation discards the cache
on_visual_change_discards_all(rd, op) ==
    [rd EXCEPT !.metrics.dirty_line_count = DirtyAfter(@, metadata(op).impact),
               !.screen_cache = <<>>]

on_visual_change(rd, op) ==
    LET impact == metadata(op).impact
        count == DirtyAfter(rd.metrics.dirty_line_count, impact)
        cache == rd.screen_cache
    IN  [rd EXCEPT
            !.metrics.dirty_line_count = count,
            !.screen_cache =
                IF count = 1
                THEN IF impact.kind = "Single"
                     THEN IF impact.row < Len(cache)
                          THEN [cache EXCEPT ![impact.row + 1] = None]
                          ELSE <<>>
                     ELSE <<>>
                ELSE <<>>]

\* a handler that treats cursor motion like a change of content
on_cursor_change_discards(rd) == [rd EXCEPT !.screen_cache = <<>>]

on_cursor_change(rd) == rd

\* a resize that keeps no entry
resize_with_fresh(cache, n) == [i \in 1..n |-> None]

\* Vec::resize_with(n, || None)
resize_with(cache, n) ==
    [i \in 1..n |-> IF i <= Len(cache) THEN cache[i] ELSE None]

\* the shape list of row i: one galley per cell, laid out left to right from the
\* origin, rows one row height apart (the monospace cell is one unit wide and high)
Shapes(line, i, origin) ==
    [k \in 1..Len(line) |->
        [ch |-> line[k].ch, color |-> line[k].fg,
         x |-> origin.x + (k - 1), y |-> origin.y + i]]

\* the checks without the one of the scroll origin
CacheChecked_without_origin_check(rd, curr_dims, curr_origin, lines) ==
    LET c1 == IF curr_dims # rd.last_render_dims THEN <<>> ELSE rd.screen_cache
        c2 == IF ~rd.cursor_optimization_mode THEN <<>> ELSE c1
    IN  IF Len(c2) # Len(lines) THEN resize_with(c2, Len(lines)) ELSE c2

\* the checks with the test of the optimisation flag negated
CacheChecked_flag_negated(rd, curr_dims, curr_origin, lines) ==
    LET c1 == IF curr_dims # rd.last_render_dims THEN <<>> ELSE rd.screen_cache
        c2 == IF rd.cursor_optimization_mode THEN <<>> ELSE c1
        c3 == IF Len(c2) # Len(lines) THEN resize_with(c2, Len(lines)) ELSE c2
    IN  IF curr_origin # rd.cached_origin
        THEN resize_with(<<>>, Len(lines))
        ELSE c3

\* the cache after the geometry checks and the resize of a draw pass
CacheChecked(rd, curr_dims, curr_origin, lines) ==
    LET c1 == IF curr_dims # rd.last_render_dims THEN <<>> ELSE rd.screen_cache
        c2 == IF ~rd.cursor_optimization_mode THEN <<>> ELSE c1
        c3 == IF Len(c2) # Len(lines) THEN resize_with(c2, Len(lines)) ELSE c2
    IN  IF curr_origin # rd.cached_origin
        THEN resize_with(<<>>, Len(lines))
        ELSE c3

\* step 3 of draw: the rows whose entry is absent are laid out and stored
Rebuild(cache, lines, origin) ==
    [i \in 1..Len(lines) |->
        IF cache[i].some
        THEN cache[i]
        ELSE Some([line_index |-> i - 1, shapes |-> Shapes(lines[i], i - 1, origin)])]

\* a paint loop that starts one entry late
Painted_skips_first(cache) ==
    [k \in 1..(Len(cache) - 1) |-> [row |-> k, shapes |-> cache[k + 1].val.shapes]]

\* step 4 of draw: the shapes of every present entry go to the painter, in row order
Painted(cache) ==
    LET present == SelectSeq([i \in 1..Len(cache) |-> [row |-> i - 1, entry |-> cache[i]]],
                             LAMBDA e : e.entry.some)
    IN  [k \in 1..Len(present) |-> [row |-> present[k].row, shapes |-> present[k].entry.val.shapes]]

\* draw(ui, state): the renderer after the pass and what the pass did
draw(rd, curr_dims, curr_origin, s) ==
    LET checked == CacheChecked(rd, curr_dims, curr_origin, s.lines)
        rebuilt == Rebuild(checked, s.lines, curr_origin)
    IN  [renderer |-> [rd EXCEPT !.screen_cache = rebuilt,
                                 !.last_render_dims = curr_dims,
                                 !.cached_origin = curr_origin,
                                 !.metrics.dirty_line_count = 0],
         laid_out |-> {i \in 0..(Len(s.lines) - 1) : ~checked[i + 1].some},
         painted |-> Painted(rebuilt),
         cursor_rect |-> [x |-> curr_origin.x + s.cursor.col,
                          y |-> curr_origin.y + s.cursor.row]]

\* the viewport sizes and scroll origins a pass may find
DimsInputs == {<<0, 0>>, <<1, 1>>}
OriginInputs == {[x |-> 0, y |-> 0], [x |-> 0, y |-> 1]}

-----------------------------------------------------------------------------
(* types.rs: TerminalMode, InputEvent, Action, BindingTarget, KeyBinding,   *)
(* ModeDefinition                                                            *)

TerminalMode_Insert == [tag |-> "Insert"]
TerminalMode_Normal == [tag |-> "Normal"]
TerminalMode_Visual == [tag |-> "Visual"]
TerminalMode_Custom(name) == [tag |-> "Custom", name |-> name]

InputEvent_Key(code, ctrl, alt, shift) ==
    [kind |-> "Key", code |-> code, ctrl |-> ctrl, alt |-> alt, shift |-> shift]
InputEvent_Text(text) == [kind |-> "Text", text |-> text]

Action_AppendChar(ch) == [tag |-> "AppendChar", ch |-> ch]
Action_Backspace == [tag |-> "Backspace"]
Action_Delete == [tag |-> "Delete"]
Action_Submit == [tag |-> "Submit"]
Action_Clear == [tag |-> "Clear"]
Action_MoveCursor(dx, dy) == [tag |-> "MoveCursor", dx |-> dx, dy |-> dy]
Action_ChangeMode(m) == [tag |-> "ChangeMode", mode |-> m]
Action_RunCommand(cmd) == [tag |-> "RunCommand", cmd |-> cmd]
Action_NoOp == [tag |-> "NoOp"]

BindingTarget_Action(action) == [kind |-> "Action", action |-> action]
BindingTarget_Macro(name) == [kind |-> "Macro", name |-> name]

KeyBinding(event, target) == [event |-> event, target |-> target]

ModeDefinition(m, bindings) == [mode |-> m, bindings |-> bindings]

\* the definitions a ShellState is constructed with
DefaultModeDefinitions ==
    <<ModeDefinition(TerminalMode_Insert,
        <<KeyBinding(InputEvent_Key("Enter", FALSE, FALSE, FALSE),
                     BindingTarget_Action(Action_Submit)),
          KeyBinding(InputEvent_Key("Backspace", FALSE, FALSE, FALSE),
                     BindingTarget_Action(Action_Backspace)),
          KeyBinding(InputEvent_Key("Escape", FALSE, FALSE, FALSE),
                     BindingTarget_Action(Action_ChangeMode(TerminalMode_Normal)))>>),
      ModeDefinition(TerminalMode_Normal,
        <<KeyBinding(InputEvent_Key("I", FALSE, FALSE, FALSE),
                     BindingTarget_Action(Action_ChangeMode(TerminalMode_Insert))),
          KeyBinding(InputEvent_Key("Escape", FALSE, FALSE, FALSE),
                     BindingTarget_Action(Action_Clear))>>)>>

-----------------------------------------------------------------------------
(* input.rs: poll_and_map; app.rs: map_input *)

\* the raw events of a frame: a key going down or up with its modifiers, a text
\* insertion, anything else
RawKey(key, pressed, command) ==
    [kind |-> "Key", key |-> key, pressed |-> pressed,
     modifiers |-> [command |-> command, alt |-> FALSE, shift |-> FALSE]]
RawText(text) == [kind |-> "Text", text |-> text]
RawPointerGone == [kind |-> "PointerGone"]

\* format!("{:?}", key): the Debug form of a key is the name of its variant
KeyDebug(key) == key

\* step 1: the raw events captured as InputEvents, in order; key releases, empty
\* texts and every other raw event are dropped
RECURSIVE capture(_)
capture(raw_events) ==
    IF raw_events = <<>> THEN <<>>
    ELSE LET event == Head(raw_events)
             rest == capture(Tail(raw_events))
         IN  IF event.kind = "Key"
             THEN IF event.pressed
                  THEN <<InputEvent_Key(KeyDebug(event.key), event.modifiers.command,
                                        event.modifiers.alt, event.modifiers.shift)>> \o rest
                  ELSE rest
             ELSE IF event.kind = "Text"
                  THEN IF event.text # <<>> THEN <<InputEvent_Text(event.text)>> \o rest
                       ELSE rest
                  ELSE rest

\* a find that takes the first definition, whatever its mode
find_definition_of_any_mode(definitions, current_mode) ==
    IF definitions = <<>> THEN None ELSE Some(Head(definitions))

\* definitions.iter().find(|d| d.mode == *current_mode)
RECURSIVE find_definition(_, _)
find_definition(definitions, current_mode) ==
    IF definitions = <<>> THEN None
    ELSE IF Head(definitions).mode = current_mode THEN Some(Head(definitions))
    ELSE find_definition(Tail(definitions), current_mode)

\* the loop of poll_and_map without its break: the scan goes on after a match
RECURSIVE scan_bindings_without_break(_, _, _)
scan_bindings_without_break(bindings, event, current_mode) ==
    IF bindings = <<>> THEN <<>>
    ELSE LET binding == Head(bindings)
             rest == scan_bindings_without_break(Tail(bindings), event, current_mode)
         IN  IF binding.event = event
             THEN IF current_mode = TerminalMode_Insert
                  THEN IF binding.target.kind = "Action"
                       THEN IF binding.target.action.tag \in {"Backspace", "Delete", "MoveCursor"}
                            THEN rest
                            ELSE <<binding.target>> \o rest
                       ELSE <<binding.target>> \o rest
                  ELSE <<binding.target>> \o rest
             ELSE rest

\* the loop of poll_and_map going on to the next binding when Insert mode leaves
\* the matching one to the text widget
RECURSIVE scan_bindings_falling_through(_, _, _)
scan_bindings_falling_through(bindings, event, current_mode) ==
    IF bindings = <<>> THEN <<>>
    ELSE LET binding == Head(bindings)
             rest == scan_bindings_falling_through(Tail(bindings), event, current_mode)
         IN  IF binding.event = event
             THEN IF current_mode = TerminalMode_Insert
                  THEN IF binding.target.kind = "Action"
                       THEN IF binding.target.action.tag \in {"Backspace", "Delete", "MoveCursor"}
                            THEN rest
                            ELSE <<binding.target>>
                       ELSE <<binding.target>>
                  ELSE <<binding.target>>
             ELSE rest

\* the loop over def.bindings of poll_and_map: what it pushes for one event
RECURSIVE scan_bindings(_, _, _)
scan_bindings(bindings, event, current_mode) ==
    IF bindings = <<>> THEN <<>>
    ELSE LET binding == Head(bindings)
         IN  IF binding.event = event
             THEN IF current_mode = TerminalMode_Insert
                  THEN IF binding.target.kind = "Action"
                       THEN IF binding.target.action.tag \in {"Backspace", "Delete", "MoveCursor"}
                            THEN <<>>
                            ELSE <<binding.target>>
                       ELSE <<binding.target>>
                  ELSE <<binding.target>>
             ELSE scan_bindings(Tail(bindings), event, current_mode)

\* step 2: the targets pushed for the captured events, in order
RECURSIVE map_events(_, _, _)
map_events(events, current_mode, definitions) ==
    IF events = <<>> THEN <<>>
    ELSE LET def == find_definition(definitions, current_mode)
             pushed == IF def.some
                       THEN scan_bindings(def.val.bindings, Head(events), current_mode)
                       ELSE <<>>
         IN  pushed \o map_events(Tail(events), current_mode, definitions)

poll_and_map(raw_events, current_mode, definitions) ==
    map_events(capture(raw_events), current_mode, definitions)

\* the loop of map_input: the Action of the first binding of the event
RECURSIVE first_action(_, _)
first_action(bindings, event) ==
    IF bindings = <<>> THEN None
    ELSE IF Head(bindings).event = event THEN Some(Head(bindings).target.action)
    ELSE first_action(Tail(bindings), event)

map_input(definitions, event, current_mode) ==
    LET def == find_definition(definitions, current_mode)
        bound == IF def.some THEN first_action(def.val.bindings, event) ELSE None
    IN  IF bound.some THEN bound
        ELSE IF current_mode = TerminalMode_Insert
             THEN IF event.kind = "Text"
                  THEN IF event.text # <<>> THEN Some(Action_AppendChar(Head(event.text)))
                       ELSE None
                  ELSE None
             ELSE None

\* the raw events of the frames, the active modes and the binding tables of the
\* runs: bindings of unmodified keys, as the configuration declares them, to an
\* Action the text widget owns, to another Action and to a macro
RawInputs ==
    {RawKey("Backspace", TRUE, FALSE), RawKey("Backspace", FALSE, FALSE),
     RawKey("Backspace", TRUE, TRUE),
     RawText(<<"a", "b">>), RawText(<<>>), RawPointerGone}
RawFrames == UNION {[1..n -> RawInputs] : n \in 0..MaxEvents}
EventInputs == UNION {{capture(<<e>>)[k] : k \in 1..Len(capture(<<e>>))} : e \in RawInputs}
ModeInputs == {TerminalMode_Insert, TerminalMode_Normal}
BindingInputs ==
    {KeyBinding(InputEvent_Key(code, FALSE, FALSE, FALSE), target) :
        code \in {"Backspace", "Enter"},
        target \in {BindingTarget_Action(Action_Backspace),
                    BindingTarget_Action(Action_Submit),
                    BindingTarget_Macro("m")}}
BindingLists == UNION {[1..n -> BindingInputs] : n \in 0..MaxBindings}
DefinitionInputs ==
    {<<>>}
    \cup {<<ModeDefinition(m, b)>> : m \in ModeInputs, b \in BindingLists}
    \cup {<<ModeDefinition(m1, bb[1]), ModeDefinition(m2, bb[2])>> :
            m1 \in ModeInputs, m2 \in ModeInputs,
            bb \in {x \in BindingLists \X BindingLists : Len(x[1]) + Len(x[2]) <= MaxBindings}}

-----------------------------------------------------------------------------
(* The worker (shell.rs, utils.rs, backend.rs).  A Rust String is the        *)
(* sequence of its characters; a window title is kept as one string.         *)

GREEN == "GREEN"
BLUE == "BLUE"
GOLD == "GOLD"

\* the characters of a string literal
Chars(s) == [k \in 1..Len(s) |-> SubSeq(s, k, k)]

\* TerminalMode::name
TerminalMode_name(m) ==
    CASE m.tag = "Insert" -> "INSERT"
      [] m.tag = "Normal" -> "NORMAL"
      [] m.tag = "Visual" -> "VISUAL"
      [] m.tag = "Custom" -> m.name

\* the derived Debug of main.rs's TerminalMode
TerminalMode_debug(m) == m.tag

\* the fields of ShellState other than screen, mode and mode_definitions
ShellState_new ==
    [prompt |-> Chars("> "),
     prompt_color |-> GREEN,
     text_color |-> LIGHT_GRAY,
     window_title_base |-> "axiomterm",
     window_title_full |-> "[INSERT] axiomterm",
     title_updated |-> FALSE,
     shortcuts |-> <<>>,
     opacity |-> "1.0",
     font_size |-> "14.0",
     current_dir |-> Chars("/"),
     directory_color |-> BLUE,
     input_buffer |-> <<>>]

\* a title that keeps the name of the mode of startup
title_of_startup_mode(m, base) == "[" \o TerminalMode_name(TerminalMode_Insert) \o "] " \o base

\* format!("[{}] {}", s.mode.name(), s.window_title_base)
title_of(m, base) == "[" \o TerminalMode_name(m) \o "] " \o base

\* format!("[{:?}] {}", s.mode, s.window_title_base)
title_debug_of(m, base) == "[" \o TerminalMode_debug(m) \o "] " \o base

is_whitespace(c) == c \in {" ", "\t", "\n", "\r"}

RECURSIVE trim_start(_)
trim_start(s) ==
    IF s # <<>> /\ is_whitespace(Head(s)) THEN trim_start(Tail(s)) ELSE s

RECURSIVE trim_end(_)
trim_end(s) ==
    IF s # <<>> /\ is_whitespace(s[Len(s)]) THEN trim_end(SubSeq(s, 1, Len(s) - 1)) ELSE s

\* str::trim
trim(s) == trim_end(trim_start(s))

\* the locals of tokenize_command before its loop
TokenizerStart ==
    [tokens |-> <<>>, current_token |-> <<>>, in_single_quote |-> FALSE,
     in_double_quote |-> FALSE, escape |-> FALSE, token_started |-> FALSE]

\* an iteration that knows no escape inside double quotes: the backslash is kept
tokenize_char_without_escape_in_quotes(t, c) ==
    IF t.escape
    THEN [t EXCEPT !.current_token = Append(@, c), !.escape = FALSE, !.token_started = TRUE]
    ELSE IF t.in_single_quote
    THEN IF c = "'"
         THEN [t EXCEPT !.in_single_quote = FALSE, !.token_started = TRUE]
         ELSE [t EXCEPT !.current_token = Append(@, c), !.token_started = TRUE]
    ELSE IF t.in_double_quote
    THEN IF c = "\""
         THEN [t EXCEPT !.in_double_quote = FALSE, !.token_started = TRUE]
         ELSE [t EXCEPT !.current_token = Append(@, c), !.token_started = TRUE]
    ELSE IF c = "'"
    THEN [t EXCEPT !.in_single_quote = TRUE, !.token_started = TRUE]
    ELSE IF c = "\""
    THEN [t EXCEPT !.in_double_quote = TRUE, !.token_started = TRUE]
    ELSE IF c = "\\"
    THEN [t EXCEPT !.escape = TRUE, !.token_started = TRUE]
    ELSE IF is_whitespace(c)
    THEN IF t.token_started
         THEN [t EXCEPT !.tokens = Append(@, t.current_token),
                        !.current_token = <<>>, !.token_started = FALSE]
         ELSE t
    ELSE [t EXCEPT !.current_token = Append(@, c), !.token_started = TRUE]

\* one iteration of the loop of tokenize_command
tokenize_char(t, c) ==
    IF t.escape
    THEN [t EXCEPT !.current_token = Append(@, c), !.escape = FALSE, !.token_started = TRUE]
    ELSE IF t.in_single_quote
    THEN IF c = "'"
         THEN [t EXCEPT !.in_single_quote = FALSE, !.token_started = TRUE]
         ELSE [t EXCEPT !.current_token = Append(@, c), !.token_started = TRUE]
    ELSE IF t.in_double_quote
    THEN IF c = "\""
         THEN [t EXCEPT !.in_double_quote = FALSE, !.token_started = TRUE]
         ELSE IF c = "\\"
         THEN [t EXCEPT !.escape = TRUE, !.token_started = TRUE]
         ELSE [t EXCEPT !.current_token = Append(@, c), !.token_started = TRUE]
    ELSE IF c = "'"
    THEN [t EXCEPT !.in_single_quote = TRUE, !.token_started = TRUE]
    ELSE IF c = "\""
    THEN [t EXCEPT !.in_double_quote = TRUE, !.token_started = TRUE]
    ELSE IF c = "\\"
    THEN [t EXCEPT !.escape = TRUE, !.token_started = TRUE]
    ELSE IF is_whitespace(c)
    THEN IF t.token_started
         THEN [t EXCEPT !.tokens = Append(@, t.current_token),
                        !.current_token = <<>>, !.token_started = FALSE]
         ELSE t
    ELSE [t EXCEPT !.current_token = Append(@, c), !.token_started = TRUE]

RECURSIVE tokenize_chars(_, _)
tokenize_chars(t, input) ==
    IF input = <<>> THEN t ELSE tokenize_chars(tokenize_char(t, Head(input)), Tail(input))

\* a tokenizer that does not split: the whole input is one token
tokenize_command_unsplit(input) == IF input = <<>> THEN <<>> ELSE <<input>>

tokenize_command(input) ==
    LET t == tokenize_chars(TokenizerStart, input)
    IN  IF t.token_started THEN Append(t.tokens, t.current_token) ELSE t.tokens

\* no call of tokenize_command yet
NotTokenized == [called |-> FALSE]

\* [String]::join
RECURSIVE join(_, _)
join(args, sep) ==
    IF args = <<>> THEN <<>>
    ELSE IF Len(args) = 1 THEN args[1]
    ELSE args[1] \o sep \o join(Tail(args), sep)

\* the bytes of a character in UTF-8; the one character of the model outside ASCII
\* is e with acute accent
utf8_len(c) == IF c = "U+00E9" THEN 2 ELSE 1

\* str::len: the length in bytes
RECURSIVE byte_len(_)
byte_len(s) == IF s = <<>> THEN 0 ELSE utf8_len(Head(s)) + byte_len(Tail(s))

\* str::is_char_boundary
is_char_boundary(s, index) == \E k \in 0..Len(s) : byte_len(SubSeq(s, 1, k)) = index

\* &s[from..to] where both are character boundaries
byte_slice(s, from, to) ==
    LET a == CHOOSE k \in 0..Len(s) : byte_len(SubSeq(s, 1, k)) = from
        b == CHOOSE k \in 0..Len(s) : byte_len(SubSeq(s, 1, k)) = to
    IN  SubSeq(s, a + 1, b)

HexDigits == <<"0", "1", "2", "3", "4", "5", "6", "7", "8", "9", "a", "b", "c", "d", "e", "f">>

hex_value(c) ==
    IF \E k \in 1..16 : HexDigits[k] = c
    THEN Some((CHOOSE k \in 1..16 : HexDigits[k] = c) - 1)
    ELSE None

\* u8::from_str_radix(digits, 16).ok() on a slice of two bytes
from_str_radix_16(digits) ==
    IF Len(digits) = 2 /\ hex_value(digits[1]).some /\ hex_value(digits[2]).some
    THEN Some(16 * hex_value(digits[1]).val + hex_value(digits[2]).val)
    ELSE IF Len(digits) = 2 /\ digits[1] = "+" /\ hex_value(digits[2]).some
    THEN Some(hex_value(digits[2]).val)
    ELSE None

RECURSIVE trim_start_matches(_, _)
trim_start_matches(s, c) ==
    IF s # <<>> /\ Head(s) = c THEN trim_start_matches(Tail(s), c) ELSE s

\* what a call can end in besides returning: the thread panics
Panic == [panic |-> TRUE]
Returns(value) == [panic |-> FALSE, value |-> value]

\* parse_hex_color: the length test counts bytes, and a slice whose end is inside a
\* character panics
parse_hex_color(text) ==
    LET hex == trim_start_matches(text, "#")
    IN  IF byte_len(hex) # 6 THEN Returns(None)
        ELSE IF ~is_char_boundary(hex, 2) THEN Panic
        ELSE LET r == from_str_radix_16(byte_slice(hex, 0, 2))
             IN  IF ~r.some THEN Returns(None)
                 ELSE IF ~is_char_boundary(hex, 4) THEN Panic
                 ELSE LET g == from_str_radix_16(byte_slice(hex, 2, 4))
                      IN  IF ~g.some THEN Returns(None)
                          ELSE LET b == from_str_radix_16(byte_slice(hex, 4, 6))
                               IN  IF ~b.some THEN Returns(None)
                                   ELSE Returns(Some([r |-> r.val, g |-> g.val,
                                                      b |-> b.val]))

\* the texts a config file can give prompt_color, text_color or directory_color
ColorSources ==
    {Chars("#ffd700"), Chars("red"), Chars("#12345"),
     <<"a", "U+00E9", "1", "2", "3">>, <<"f", "f", "U+00E9", "0", "0">>}

\* parse_config does not return: a color text of the file makes parse_hex_color panic
parse_config_panics == \E text \in ColorSources : parse_hex_color(text).panic

\* what the operating system can answer a file or process request with
IoErrors == {Chars("No such file or directory (os error 2)")}
\* what env::current_dir can answer after a successful set_current_dir
DirInputs == {Chars("/tmp")}
\* the built-ins that only touch the file system and report through pushed lines
FileCommands == {Chars(c) : c \in {"mkdir", "touch", "cat", "rm", "mv", "cp", "ls"}}
\* the lines such a built-in pushes: none, or one of a file's lines or an error line
FileLines == {<<>>} \cup {<<[text |-> Chars("f"), fg |-> fg]>> : fg \in {LIGHT_GRAY, RED}}
\* the ConfigUpdate values parse_config answers with
ConfigUpdateInputs ==
    {[prompt |-> None, prompt_color |-> None, text_color |-> None,
      window_title |-> None, shortcuts |-> None, opacity |-> None, font_size |-> None,
      default_cwd |-> None, directory_color |-> None, mode_definitions |-> None],
     [prompt |-> Some(Chars("$ ")), prompt_color |-> None, text_color |-> None,
      window_title |-> Some("t"), shortcuts |-> None, opacity |-> None, font_size |-> None,
      default_cwd |-> None, directory_color |-> None, mode_definitions |-> Some(<<>>)],
     [prompt |-> None, prompt_color |-> Some(GOLD), text_color |-> Some(GREEN),
      window_title |-> None, shortcuts |-> Some(<<[key |-> "k", cmd |-> "ls"]>>),
      opacity |-> Some("0.5"), font_size |-> Some("12.0"),
      default_cwd |-> Some(Chars("/tmp")), directory_color |-> Some(RED),
      mode_definitions |-> None]}

\* what the "config" arm finds out about update.default_cwd before it takes the lock:
\* the directory to store, or the error to report
CwdOutcomes(update) ==
    IF update.default_cwd.some
    THEN {[calls |-> <<"set_current_dir", "current_dir">>,
           actual_cwd |-> Some(d), cwd_error |-> None] : d \in DirInputs}
         \cup {[calls |-> <<"set_current_dir">>, actual_cwd |-> None,
                cwd_error |-> Some(Chars("Failed to set default_cwd to ")
                                     \o update.default_cwd.val \o Chars(": ") \o e)] :
                  e \in IoErrors}
         \cup {[calls |-> <<"set_current_dir", "current_dir">>, actual_cwd |-> None,
                cwd_error |-> Some(Chars("Failed to read current dir '")
                                     \o update.default_cwd.val \o Chars("': ") \o e)] :
                  e \in IoErrors}
    ELSE {[calls |-> <<>>, actual_cwd |-> None, cwd_error |-> None]}

\* an Option's value, or the value there was
or_keep(option, old) == IF option.some THEN option.val ELSE old

\* a merge that clears the prompt when the update has none
merge_clearing_prompt(sh, update, actual_cwd, m) ==
    LET sh1 == [sh EXCEPT
                  !.prompt = IF update.prompt.some THEN update.prompt.val ELSE <<>>,
                  !.prompt_color = or_keep(update.prompt_color, @),
                  !.text_color = or_keep(update.text_color, @),
                  !.window_title_base = or_keep(update.window_title, @),
                  !.shortcuts = or_keep(update.shortcuts, @),
                  !.opacity = or_keep(update.opacity, @),
                  !.font_size = or_keep(update.font_size, @),
                  !.directory_color = or_keep(update.directory_color, @),
                  !.current_dir = or_keep(actual_cwd, @)]
    IN  [sh1 EXCEPT !.window_title_full = title_of(m, sh1.window_title_base),
                    !.title_updated = TRUE]

\* the block of the "config" arm that holds the lock: the fields of the update into
\* the ShellState, then the title
merge(sh, update, actual_cwd, m) ==
    LET sh1 == [sh EXCEPT
                  !.prompt = or_keep(update.prompt, @),
                  !.prompt_color = or_keep(update.prompt_color, @),
                  !.text_color = or_keep(update.text_color, @),
                  !.window_title_base = or_keep(update.window_title, @),
                  !.shortcuts = or_keep(update.shortcuts, @),
                  !.opacity = or_keep(update.opacity, @),
                  !.font_size = or_keep(update.font_size, @),
                  !.directory_color = or_keep(update.directory_color, @),
                  !.current_dir = or_keep(actual_cwd, @)]
    IN  [sh1 EXCEPT !.window_title_full = title_of(m, sh1.window_title_base),
                    !.title_updated = TRUE]

\* s.mode_definitions after that block
merge_definitions(defs, update) == or_keep(update.mode_definitions, defs)

\* the state execute_command works on and what it has done so far: the operations
\* sent, the lines the children it spawned are still to write, whether it left
\* through process::exit
Outcome(scr, sh, defs) ==
    [screen |-> scr, shell |-> sh, mode_definitions |-> defs,
     ops |-> <<>>, streams |-> 0, exited |-> FALSE, panicked |-> FALSE]

\* s.screen.push_line(Line::from_string(text, fg)) and the send of the operation
Emit(o, text, fg) ==
    LET r == push_line(o.screen, Line_from_string(text, fg))
    IN  [o EXCEPT !.screen = r.screen, !.ops = Append(@, r.op)]

RECURSIVE EmitAll(_, _)
EmitAll(o, lines) ==
    IF lines = <<>> THEN o
    ELSE EmitAll(Emit(o, Head(lines).text, Head(lines).fg), Tail(lines))

\* the "config" arm with the ConfigUpdate that parse_config returned
config_loaded(o, update, cwd, m, path) ==
    LET merged == [o EXCEPT !.shell = merge(@, update, cwd.actual_cwd, m),
                            !.mode_definitions = merge_definitions(@, update)]
        reported == IF cwd.cwd_error.some THEN Emit(merged, cwd.cwd_error.val, RED)
                    ELSE merged
    IN  Emit(reported, Chars("Config loaded from: ") \o path, GOLD)

\* execute_command: the outcomes it can have on the given state
execute_command(cmd_line, scr, sh, m, defs) ==
    LET trimmed == trim(cmd_line)
        parts == tokenize_command(trimmed)
        o == Outcome(scr, sh, defs)
    IN  IF trimmed = <<>> THEN {o}
        ELSE IF parts = <<>> THEN {o}
        ELSE LET command == parts[1]
                 args == Tail(parts)
             IN  CASE command = Chars("exit") -> {[o EXCEPT !.exited = TRUE]}
                   [] command = Chars("cd") ->
                        {Emit(o, Chars("Error: ") \o e, RED) : e \in IoErrors}
                        \cup {[o EXCEPT !.shell.current_dir = d] : d \in DirInputs}
                        \cup {o}
                   [] command = Chars("pwd") -> {Emit(o, sh.current_dir, sh.text_color)}
                   [] command = Chars("clear") ->
                        LET r == clear(scr) IN {[o EXCEPT !.screen = r.screen, !.ops = <<r.op>>]}
                   [] command = Chars("echo") -> {Emit(o, join(args, <<" ">>), sh.text_color)}
                   [] command \in FileCommands -> {EmitAll(o, lines) : lines \in FileLines}
                   [] command = Chars("config") ->
                        IF args # <<>> /\ args[1] = Chars("load")
                        THEN LET path == IF Len(args) >= 2 THEN args[2] ELSE Chars("config.lua")
                             IN  UNION {{config_loaded(o, update, cwd, m, path) : cwd \in CwdOutcomes(update)} :
                                           update \in ConfigUpdateInputs}
                                 \cup {Emit(o, Chars("Failed to load config at ") \o path
                                                \o Chars(": ") \o e, RED) : e \in IoErrors}
                                 \cup (IF parse_config_panics
                                       THEN {[o EXCEPT !.panicked = TRUE]} ELSE {})
                                 \cup (IF Len(args) >= 2 THEN {}
                                       ELSE {Emit(o, Chars("Error: Could not determine default config path"), RED)})
                        ELSE {Emit(o, Chars("Usage: config load [path]"), sh.text_color)}
                   [] OTHER ->
                        {Emit(o, Chars("Failed to spawn ") \o command \o Chars(": ") \o e, RED) :
                            e \in IoErrors}
                        \cup {[o EXCEPT !.streams = n] : n \in 0..MaxStream}

-----------------------------------------------------------------------------
(* The critical sections (shell.rs, backend.rs, app.rs).  The code of a      *)
(* thread is the sequence of the steps it takes: taking and dropping the     *)
(* MutexGuard of the ShellState, what it does to the ShellState, the sends,  *)
(* the blocking calls and the drawing calls, in program order.               *)

I_Lock == [i |-> "Lock"]                    \* thread_state.lock().unwrap()
I_Unlock == [i |-> "Unlock"]                \* the guard goes out of scope
I_Send == [i |-> "Send"]                    \* output_tx.send(ShellEvent::Operation(op))
\* a call into the file system, the process table or a pipe, answered with Ok or Err
I_Io(call) == [i |-> "Io", call |-> call, ok |-> TRUE]
I_IoErr(call) == [i |-> "Io", call |-> call, ok |-> FALSE]
I_Snapshot == [i |-> "Snapshot"]            \* values copied out of the ShellState
I_AppendChar(ch) == [i |-> "AppendChar", ch |-> ch]
I_Pop == [i |-> "Pop"]
I_TakeEcho == [i |-> "TakeEcho"]            \* mem::take of the buffer, push_line of the echo
I_Clear == [i |-> "Clear"]
I_SetMode(m) == [i |-> "SetMode", mode |-> m]
\* push_line(Line::from_string(text, fg)); fg "text_color" is s.text_color read there
I_Push(text, fg) == [i |-> "Push", text |-> text, fg |-> fg]
I_PushDir == [i |-> "PushDir"]              \* push_line of s.current_dir
I_SetDir(d) == [i |-> "SetDir", dir |-> d]
I_Merge(update, actual_cwd) == [i |-> "Merge", update |-> update, actual_cwd |-> actual_cwd]
I_Exec(cmd) == [i |-> "Exec", taken |-> FALSE, cmd |-> cmd]   \* execute_command(&cmd)
I_ExecTaken == [i |-> "Exec", taken |-> TRUE]                 \* execute_command(&cmd_line)
I_Spawn(out, err) == [i |-> "Spawn", out |-> out, err |-> err] \* the two thread::spawn
I_Exit == [i |-> "Exit"]                    \* std::process::exit(0)
I_Panic(call) == [i |-> "Panic", call |-> call]  \* the call unwinds the thread
I_Drain == [i |-> "Drain"]                  \* the drain loop of update
I_Title == [i |-> "Title"]                  \* the title check of update
I_Draw(what) == [i |-> "Draw", what |-> what]

\* a critical section that pushes one line and sends its operation
Section_push(text, fg) == <<I_Lock, I_Push(text, fg), I_Send, I_Unlock>>

\* the arms of the match in spawn_shell_thread
Program_AppendChar(ch) == <<I_Lock, I_AppendChar(ch), I_Unlock>>
Program_Backspace == <<I_Lock, I_Pop, I_Unlock>>
Program_Submit == <<I_Lock, I_TakeEcho, I_Send, I_Unlock, I_ExecTaken>>
\* a Clear arm that sends after it has dropped the guard
Program_Clear_send_after_unlock == <<I_Lock, I_Clear, I_Unlock, I_Send>>
Program_Clear == <<I_Lock, I_Clear, I_Send, I_Unlock>>
Program_ChangeMode(m) == <<I_Lock, I_SetMode(m), I_Unlock>>
Program_RunCommand(cmd) == <<I_Exec(cmd)>>

Program_of(action) ==
    CASE action.tag = "AppendChar" -> Program_AppendChar(action.ch)
      [] action.tag = "Backspace" -> Program_Backspace
      [] action.tag = "Submit" -> Program_Submit
      [] action.tag = "Clear" -> Program_Clear
      [] action.tag = "ChangeMode" -> Program_ChangeMode(action.mode)
      [] action.tag = "RunCommand" -> Program_RunCommand(action.cmd)
      [] OTHER -> <<>>

\* the contents read_to_string can return for a file, as lines
FileContents == {<<>>, <<Chars("f")>>, <<Chars("f"), Chars("g")>>}
\* the entries read_dir can return
DirEntries == {<<>>, <<Chars("f")>>}

\* the Ok arm of cat: one guard for all the lines of the file
RECURSIVE cat_lines(_)
cat_lines(content) ==
    IF content = <<>> THEN <<>>
    ELSE <<I_Push(Head(content), "snapshot_text_color"), I_Send>> \o cat_lines(Tail(content))

cat_section(content) == <<I_Lock>> \o cat_lines(content) \o <<I_Unlock>>

\* the sequences that take one element of each set in turn
RECURSIVE Chain(_)
Chain(sets) ==
    IF sets = <<>> THEN {<<>>}
    ELSE {p \o q : p \in Head(sets), q \in Chain(Tail(sets))}

\* the loop "for path in args" of a file built-in: what it does for one path
PerPath(command, path) ==
    CASE command = Chars("mkdir") ->
           {<<I_Io("create_dir_all")>>}
           \cup {<<I_IoErr("create_dir_all")>>
                 \o Section_push(Chars("mkdir: ") \o path \o Chars(": ") \o e, RED) :
                    e \in IoErrors}
      [] command = Chars("touch") ->
           {<<I_Io("open"), I_Io("set_file_mtime")>>}
           \cup {<<I_Io("open"), I_IoErr("set_file_mtime")>>
                 \o Section_push(Chars("touch (mtime): ") \o path \o Chars(": ") \o e, RED) :
                    e \in IoErrors}
           \cup {<<I_IoErr("open")>>
                 \o Section_push(Chars("touch: ") \o path \o Chars(": ") \o e, RED) :
                    e \in IoErrors}
      [] command = Chars("cat") ->
           {<<I_Io("read_to_string")>> \o cat_section(content) : content \in FileContents}
           \cup {<<I_IoErr("read_to_string")>>
                 \o Section_push(Chars("cat: ") \o path \o Chars(": ") \o e, RED) :
                    e \in IoErrors}
      [] command = Chars("rm") ->
           {<<I_Io("remove_file")>>}
           \cup {<<I_IoErr("remove_file"), I_Io("remove_dir")>>}
           \cup {<<I_IoErr("remove_file"), I_IoErr("remove_dir")>>
                 \o Section_push(Chars("rm: ") \o path \o Chars(": ") \o e, RED) :
                    e \in IoErrors}

\* the arms mv and cp
TwoPaths(command, args, call) ==
    IF Len(args) = 2
    THEN {<<I_Io(call)>>}
         \cup {<<I_IoErr(call)>> \o Section_push(command \o Chars(": ") \o e, RED) :
                  e \in IoErrors}
    ELSE {Section_push(Chars("Usage: ") \o command \o Chars(" <source> <dest>"),
                       "snapshot_text_color")}

\* the path the arm ls lists: the last argument that is not an option
RECURSIVE ls_target(_, _)
ls_target(args, target_path) ==
    IF args = <<>> THEN target_path
    ELSE LET arg == Head(args)
         IN  IF arg = Chars("-a") \/ arg = Chars("--all") \/ arg = Chars("-l")
             THEN ls_target(Tail(args), target_path)
             ELSE IF ~(arg # <<>> /\ arg[1] = "-") THEN ls_target(Tail(args), arg)
             ELSE ls_target(Tail(args), target_path)

\* the arm ls: read_dir, then for every entry its metadata and a section
ls_programs(args) ==
    UNION {{<<I_Io("read_dir")>> \o p :
              p \in Chain([k \in 1..Len(entries) |->
                             {<<I_Io("metadata")>> \o Section_push(entries[k], fg) :
                                 fg \in {"snapshot_text_color", "snapshot_dir_color"}}
                             \cup {<<I_IoErr("metadata")>>
                                   \o Section_push(entries[k], "snapshot_text_color")}])} :
             entries \in DirEntries}
    \cup {<<I_IoErr("read_dir")>>
          \o Section_push(Chars("ls: ") \o ls_target(args, Chars(".")) \o Chars(": ") \o e, RED) :
             e \in IoErrors}

\* the steps by which the "config" arm finds out about update.default_cwd
cwd_steps(cwd) ==
    [k \in 1..Len(cwd.calls) |->
        IF k = Len(cwd.calls) /\ cwd.cwd_error.some THEN I_IoErr(cwd.calls[k])
        ELSE I_Io(cwd.calls[k])]

\* a failed load that also puts the prompt back to what it is at start
config_failed_resetting_prompt(path, e) ==
    <<I_IoErr("parse_config"), I_Lock,
      I_Merge([prompt |-> Some(Chars("> ")), prompt_color |-> None, text_color |-> None,
               window_title |-> None, shortcuts |-> None, opacity |-> None,
               font_size |-> None, default_cwd |-> None, directory_color |-> None,
               mode_definitions |-> None], None),
      I_Push(Chars("Failed to load config at ") \o path \o Chars(": ") \o e, RED),
      I_Send, I_Unlock>>

\* the Err arm of match parse_config(&path)
config_failed(path, e) ==
    <<I_IoErr("parse_config")>>
    \o Section_push(Chars("Failed to load config at ") \o path \o Chars(": ") \o e, RED)

\* the arm config
config_programs(args) ==
    IF args # <<>> /\ args[1] = Chars("load")
    THEN LET path == IF Len(args) >= 2 THEN args[2] ELSE Chars("config.lua")
             found == IF Len(args) >= 2 THEN <<>> ELSE <<I_Io("get_default_config_path")>>
         IN  UNION {{found \o <<I_Io("parse_config")>> \o cwd_steps(cwd)
                         \o <<I_Lock, I_Merge(update, cwd.actual_cwd), I_Unlock>>
                         \o (IF cwd.cwd_error.some THEN Section_push(cwd.cwd_error.val, RED)
                             ELSE <<>>)
                         \o Section_push(Chars("Config loaded from: ") \o path, GOLD) :
                            cwd \in CwdOutcomes(update)} : update \in ConfigUpdateInputs}
             \cup {found \o config_failed(path, e) : e \in IoErrors}
             \cup (IF parse_config_panics THEN {found \o <<I_Panic("parse_config")>>} ELSE {})
             \cup (IF Len(args) >= 2 THEN {}
                   ELSE {<<I_IoErr("get_default_config_path")>>
                         \o Section_push(
                              Chars("Error: Could not determine default config path"), RED)})
    ELSE {Section_push(Chars("Usage: config load [path]"), "snapshot_text_color")}

\* the loop of a child's reader thread over the lines the child writes
RECURSIVE stream_program(_, _)
stream_program(lines, fg) ==
    IF lines = <<>> THEN <<I_Io("read_line")>>
    ELSE <<I_Io("read_line")>> \o Section_push(Head(lines), fg) \o stream_program(Tail(lines), fg)

\* what a child writes on stdout and on stderr
ChildOutputs == {[out |-> <<>>, err |-> <<>>], [out |-> <<Chars("o")>>, err |-> <<Chars("e")>>]}

\* execute_command as the steps it takes: the code of the arm the text selects
exec_programs(cmd_line) ==
    LET trimmed == trim(cmd_line)
        parts == tokenize_command(trimmed)
    IN  IF trimmed = <<>> THEN {<<>>}
        ELSE IF parts = <<>> THEN {<<>>}
        ELSE LET command == parts[1]
                 args == Tail(parts)
                 colours == <<I_Lock, I_Snapshot, I_Unlock>>
                 arm ==
                   CASE command = Chars("exit") -> {<<I_Exit>>}
                     [] command = Chars("cd") ->
                          {<<I_IoErr("set_current_dir")>>
                           \o Section_push(Chars("Error: ") \o e, RED) : e \in IoErrors}
                          \cup {<<I_Io("set_current_dir"), I_Io("current_dir"),
                                  I_Lock, I_SetDir(d), I_Unlock>> : d \in DirInputs}
                          \cup {<<I_Io("set_current_dir"), I_IoErr("current_dir")>>}
                     [] command = Chars("pwd") -> {<<I_Lock, I_PushDir, I_Send, I_Unlock>>}
                     [] command = Chars("clear") -> {<<I_Lock, I_Clear, I_Send, I_Unlock>>}
                     [] command = Chars("echo") ->
                          {Section_push(join(args, <<" ">>), "text_color")}
                     [] command \in {Chars("mkdir"), Chars("touch"), Chars("cat"), Chars("rm")} ->
                          Chain([k \in 1..Len(args) |-> PerPath(command, args[k])])
                     [] command = Chars("mv") -> TwoPaths(command, args, "rename")
                     [] command = Chars("cp") -> TwoPaths(command, args, "copy")
                     [] command = Chars("ls") -> ls_programs(args)
                     [] command = Chars("config") -> config_programs(args)
                     [] OTHER ->
                          {<<I_IoErr("spawn")>>
                           \o Section_push(Chars("Failed to spawn ") \o command
                                             \o Chars(": ") \o e, RED) : e \in IoErrors}
                          \cup {<<I_Io("spawn"), I_Spawn(c.out, c.err)>> : c \in ChildOutputs}
             IN  {colours \o p : p \in arm}

\* map_input: the guard is taken, the bindings are read, the guard goes at the return
Program_map_input == <<I_Lock, I_Snapshot, I_Unlock>>

\* the loop over the frame's events: one call of map_input for each
RECURSIVE Program_events(_)
Program_events(n) == IF n = 0 THEN <<>> ELSE Program_map_input \o Program_events(n - 1)

\* an update whose loop calls map_input inside the block of the mode snapshot
Program_update_mapping_under_guard(events) ==
    <<I_Drain, I_Lock, I_Snapshot>> \o Program_events(events)
    \o <<I_Unlock, I_Lock, I_Title, I_Unlock,
         I_Draw("status_bar"), I_Lock, I_Snapshot, I_Unlock, I_Draw("rows"),
         I_Lock, I_Draw("text_edit"), I_Unlock>>

\* one frame of update that captures the given number of input events: the drain
\* loop, the mode snapshot, the mapping of the events, the title check, the status
\* bar, the snapshot for the rows, the rows and the cursor, and the TextEdit on
\* the input buffer
Program_update(events) ==
    <<I_Drain, I_Lock, I_Snapshot, I_Unlock>> \o Program_events(events)
    \o <<I_Lock, I_Title, I_Unlock,
         I_Draw("status_bar"), I_Lock, I_Snapshot, I_Unlock, I_Draw("rows"),
         I_Lock, I_Draw("text_edit"), I_Unlock>>

-----------------------------------------------------------------------------
(* types.rs: Action::from_str and TerminalMode::from_str.  A string is the    *)
(* sequence of its characters; a mode name and a window title are one string. *)

\* the string of a sequence of characters
RECURSIVE Str(_)
Str(chars) == IF chars = <<>> THEN "" ELSE Head(chars) \o Str(Tail(chars))

starts_with(s, prefix) == Len(s) >= Len(prefix) /\ SubSeq(s, 1, Len(prefix)) = prefix
ends_with(s, c) == s # <<>> /\ s[Len(s)] = c

TerminalMode_from_str(s) ==
    CASE s \in {Chars("Insert"), Chars("INSERT")} -> Some(TerminalMode_Insert)
      [] s \in {Chars("Normal"), Chars("NORMAL")} -> Some(TerminalMode_Normal)
      [] s \in {Chars("Visual"), Chars("VISUAL")} -> Some(TerminalMode_Visual)
      [] OTHER -> Some(TerminalMode_Custom(Str(s)))

\* &s[11..s.len()-1]: the eleven bytes of the prefix are ASCII and the last byte is
\* the closing parenthesis, so both ends are character boundaries
argument_of(s) == SubSeq(s, 12, Len(s) - 1)

Action_from_str(s) ==
    CASE s = Chars("Backspace") -> Some(Action_Backspace)
      [] s = Chars("Delete") -> Some(Action_Delete)
      [] s \in {Chars("Submit"), Chars("Enter")} -> Some(Action_Submit)
      [] s = Chars("Clear") -> Some(Action_Clear)
      [] s = Chars("NoOp") -> Some(Action_NoOp)
      [] OTHER ->
            IF starts_with(s, Chars("ChangeMode(")) /\ ends_with(s, ")")
            THEN LET m == TerminalMode_from_str(argument_of(s))
                 IN  IF m.some THEN Some(Action_ChangeMode(m.val)) ELSE None
            ELSE IF starts_with(s, Chars("RunCommand(")) /\ ends_with(s, ")")
            THEN Some(Action_RunCommand(argument_of(s)))
            ELSE IF starts_with(s, Chars("InsertChar(")) /\ ends_with(s, ")")
            THEN IF argument_of(s) # <<>>
                 THEN Some(Action_AppendChar(Head(argument_of(s))))
                 ELSE None
            ELSE IF byte_len(s) = 1 THEN Some(Action_AppendChar(Head(s)))
            ELSE None

-----------------------------------------------------------------------------
(* lua_bridge.rs: the Lua values a macro lookup meets, MacroError, the        *)
(* metrics, and macro resolution.  A Lua table is the function from its keys  *)
(* to its values; a list is a table whose keys are 1..n, which pairs visits   *)
(* in order.                                                                  *)

MAX_MACRO_ACTIONS == 100

LuaNil == [type |-> "Nil"]
LuaNumber == [type |-> "Number"]
\* a Lua string that is UTF-8, and one that is not (to_str fails on it)
LuaString(s) == [type |-> "String", utf8 |-> TRUE, s |-> s]
LuaBytes == [type |-> "String", utf8 |-> FALSE, s |-> <<>>]
LuaTable(fields) == [type |-> "Table", fields |-> fields]
\* a function, by what a call of it with no arguments does
LuaFunction(returned_value) == [type |-> "Function", raises |-> FALSE, returns |-> returned_value]
LuaRaising == [type |-> "Function", raises |-> TRUE, returns |-> LuaNil]

\* Table::get
Table_get(table, key) ==
    IF key \in DOMAIN table.fields THEN table.fields[key] ELSE LuaNil

NotFound(name) == [kind |-> "NotFound", macro_name |-> name]
InvalidReturnType(name) == [kind |-> "InvalidReturnType", macro_name |-> name]
ActionParseError(macro_name, value) ==
    [kind |-> "ActionParseError", macro_name |-> macro_name, value |-> value]
ActionLimitExceeded(macro_name, limit) ==
    [kind |-> "ActionLimitExceeded", macro_name |-> macro_name, limit |-> limit]

Ok(actions) == [ok |-> TRUE, actions |-> actions]
Err(e) == [ok |-> FALSE, error |-> e]

limit_reached_after_the_push(actions) == Len(actions) > MAX_MACRO_ACTIONS

\* lua_bridge.rs:179, the test made before a string entry is parsed
limit_reached(actions) == Len(actions) >= MAX_MACRO_ACTIONS

parse_failed_keeping_the_prefix(macro_name, value, actions) == Ok(actions)

\* lua_bridge.rs:189-194, the arm of an entry that is no Action
parse_failed(macro_name, value, actions) == Err(ActionParseError(macro_name, value))

\* one turn of the loop of parse_action_table; once the function has returned, the
\* turns that are left do nothing
parse_entry(macro_name, loop, v) ==
    IF loop.returned.some THEN loop
    ELSE IF v.type = "String" /\ v.utf8
    THEN IF limit_reached(loop.actions)
         THEN [loop EXCEPT !.returned =
                   Some(Err(ActionLimitExceeded(macro_name, MAX_MACRO_ACTIONS)))]
         ELSE LET action == Action_from_str(v.s)
              IN  IF action.some
                  THEN [loop EXCEPT !.actions = Append(@, action.val)]
                  ELSE [loop EXCEPT !.returned =
                            Some(parse_failed(macro_name, v.s, loop.actions))]
    ELSE loop

\* the loop over the entries in order: the turns of the first half, then the turns
\* of the second half
RECURSIVE for_each_pair(_, _, _)
for_each_pair(macro_name, entries, loop) ==
    IF entries = <<>> THEN loop
    ELSE IF Len(entries) = 1 THEN parse_entry(macro_name, loop, entries[1])
    ELSE LET half == Len(entries) \div 2
             first == for_each_pair(macro_name, SubSeq(entries, 1, half), loop)
         IN  IF first.returned.some THEN first
             ELSE for_each_pair(macro_name, SubSeq(entries, half + 1, Len(entries)), first)

parse_action_table(macro_name, table) ==
    LET loop == for_each_pair(macro_name, table.fields, [actions |-> <<>>, returned |-> None])
    IN  IF loop.returned.some THEN loop.returned.val ELSE Ok(loop.actions)

resolve_macro_internal(globals, name) ==
    LET axiom == Table_get(globals, "axiom")
    IN  IF axiom.type # "Table" THEN Err(NotFound(name))
        ELSE LET macros == Table_get(axiom, "macros")
             IN  IF macros.type # "Table" THEN Err(NotFound(name))
                 ELSE LET macro_val == Table_get(macros, name)
                      IN  IF macro_val.type # "Function" THEN Err(NotFound(name))
                          ELSE IF macro_val.raises THEN Err(InvalidReturnType(name))
                          ELSE IF macro_val.returns.type # "Table"
                          THEN Err(InvalidReturnType(name))
                          ELSE parse_action_table(name, macro_val.returns)

MacroInvocation_new(macro_name) ==
    [macro_name |-> macro_name, total_invocations |-> 0, total_actions_emitted |-> 0,
     max_actions_emitted |-> 0, last_error |-> None]

\* HashMap::entry(..).or_insert_with(..)
or_insert(invocations, macro_name) ==
    IF macro_name \in DOMAIN invocations THEN invocations[macro_name]
    ELSE MacroInvocation_new(macro_name)

\* the invocations with the entry of macro_name set
with_entry(invocations, macro_name, entry) ==
    [n \in DOMAIN invocations \cup {macro_name} |->
        IF n = macro_name THEN entry ELSE invocations[n]]

record_success_keeping_the_error(invocations, macro_name, action_count) ==
    LET entry == or_insert(invocations, macro_name)
    IN  with_entry(invocations, macro_name,
            [entry EXCEPT !.total_invocations = @ + 1,
                          !.total_actions_emitted = @ + action_count,
                          !.max_actions_emitted = IF @ >= action_count THEN @ ELSE action_count])

record_success(invocations, macro_name, action_count) ==
    LET entry == or_insert(invocations, macro_name)
    IN  with_entry(invocations, macro_name,
            [entry EXCEPT !.total_invocations = @ + 1,
                          !.total_actions_emitted = @ + action_count,
                          !.max_actions_emitted = IF @ >= action_count THEN @ ELSE action_count,
                          !.last_error = None])

record_error(invocations, macro_name, error) ==
    LET entry == or_insert(invocations, macro_name)
    IN  with_entry(invocations, macro_name,
            [entry EXCEPT !.total_invocations = @ + 1,
                          !.last_error = Some(error)])

\* MacroMetrics::get
MacroMetrics_get(invocations, macro_name) ==
    IF macro_name \in DOMAIN invocations THEN Some(invocations[macro_name]) ELSE None

\* the metrics after resolve_macro has recorded a result
recorded(invocations, name, result) ==
    IF result.ok THEN record_success(invocations, name, Len(result.actions))
    ELSE record_error(invocations, name, result.error)

\* the globals LuaEngine::new leaves: axiom.macros is an empty table
Globals_new == LuaTable([g \in {"axiom"} |-> LuaTable([f \in {"macros"} |-> LuaTable(<<>>)])])

\* LuaEngine::new.  `resolved` is what the last call of resolve_macro was given and
\* returned, and `calls` what every call so far was given and returned
\* (the length of the Actions for the ones that succeeded).
LuaEngine_new ==
    [globals |-> Globals_new, invocations |-> <<>>, resolved |-> None, calls |-> <<>>]

-----------------------------------------------------------------------------
(* app.rs: the reload of the configuration when the watcher signals a change. *)
(* Instants are milliseconds since TerminalApp::new.                          *)

\* Duration::from_millis(500)
Window == 500

\* TerminalApp::new: last_reload is the instant of construction and config_rx is
\* empty.  A signal in config_chan is the instant the watcher sent it (the channel
\* carries the unit value); `signals` counts the signals sent so far and `sent`
\* lists the reloads: when the Action was sent and when its signal had arrived.
ReloadIdle ==
    [now |-> 0, last_reload |-> 0, config_chan |-> <<>>, signals |-> 0, sent |-> <<>>]

-----------------------------------------------------------------------------
(* Initial states *)

NoOp == [tag |-> "None"]

\* the record of the operations handled since the last draw pass: whether a Structural
\* or a Cursor one was among them, and how many Visual ones
NothingHandled == [structural |-> FALSE, visual |-> 0, cursor |-> FALSE]

\* the worker blocked in action_rx.recv, nothing handled yet
WorkerIdle == [at |-> "recv", cmd_line |-> <<>>, actions |-> <<>>, ops |-> <<>>, streams |-> 0]

\* no thread has anything left to do
ThreadIdle == [prog |-> <<>>, op |-> NoOp, held |-> 0, snap |-> <<>>]
ThreadsIdle == [t \in {"worker", "stdout", "stderr", "present"} |-> ThreadIdle]

\* the presentation loop at the head of its first frame
FrameStart == [at |-> "drain", backlog |-> 0, drained |-> 0, received |-> <<>>]

\* the step just taken is not a draw pass
NoPass == [pass |-> "none"]

InitDisplay ==
    /\ screen = Screen_new
    /\ returned = <<>>
    /\ output_chan = <<>>
    /\ renderer = TerminalRenderer_default
    /\ surface = NoPass
    /\ last_drawn = <<>>
    /\ handled = NothingHandled
    /\ classified = [op |-> NoOp]
    /\ dispatched = [call |-> "none"]
    /\ shell = ShellState_new
    /\ action_chan = <<>>
    /\ worker = WorkerIdle
    /\ session = <<>>
    /\ frame = FrameStart
    /\ lock = "free"
    /\ threads = ThreadsIdle
    /\ applied = <<>>
    /\ reload = ReloadIdle
    /\ engine = LuaEngine_new
    /\ tokenized = NotTokenized

InitShared ==
    /\ InitDisplay
    /\ mode = TerminalMode_Insert
    /\ mode_definitions = DefaultModeDefinitions

-----------------------------------------------------------------------------
(* Spec: the producer side.  A Screen mutation and the send of the operation *)
(* it returns are one step under the state lock (shell.rs, backend.rs).      *)

Produce(r) ==
    /\ Len(output_chan) < MaxChan
    /\ Len(r.screen.lines) <= MaxLines
    /\ screen' = r.screen
    /\ output_chan' = Append(output_chan, r.op)
    /\ surface' = NoPass
    /\ UNCHANGED <<returned, renderer, last_drawn, handled, classified, dispatchVars, workerVars, frame, lockVars, auxVars>>

Produce_push_line(line) == Produce(push_line(screen, line))

Produce_clear == Produce(clear(screen))

Produce_set_cursor(cursor) == Produce(set_cursor(screen, cursor))

Produce_update_line(row, line) == Produce(update_line(screen, row, line))

(* Spec: the presentation side.  One iteration of the drain loop of update  *)
(* receives an operation, classifies it and calls the renderer's handler.   *)

Handled(h, op) ==
    [structural |-> h.structural \/ category(op) = "Structural",
     visual |-> IF category(op) = "Visual" THEN h.visual + 1 ELSE h.visual,
     cursor |-> h.cursor \/ category(op) = "Cursor"]

ReceiveOperation ==
    /\ output_chan # <<>>
    /\ LET op == Head(output_chan)
       IN  /\ category(op) = "Visual" => handled.visual < MaxVisualRun
           /\ renderer' = CASE category(op) = "Structural" -> on_structural_change(renderer)
                            [] category(op) = "Visual" -> on_visual_change(renderer, op)
                            [] category(op) = "Cursor" -> on_cursor_change(renderer)
           /\ handled' = Handled(handled, op)
    /\ output_chan' = Tail(output_chan)
    /\ surface' = NoPass
    /\ UNCHANGED <<screen, returned, last_drawn, classified, dispatchVars, workerVars, frame, lockVars, auxVars>>

\* a draw pass over the Screen as it is now, in a viewport of the given geometry
DrawPass(curr_dims, curr_origin) ==
    /\ LET d == draw(renderer, curr_dims, curr_origin, screen)
       IN  /\ renderer' = d.renderer
           /\ surface' = [pass |-> "draw",
                          repeated |-> (surface.pass = "draw"),
                          laid_out |-> d.laid_out,
                          painted |-> [k \in 1..Len(d.painted) |-> d.painted[k].row],
                          cursor_rect |-> d.cursor_rect]
    /\ last_drawn' = screen.lines
    /\ handled' = NothingHandled
    /\ UNCHANGED <<screen, returned, output_chan, classified, dispatchVars, workerVars, frame, lockVars, auxVars>>

Init == InitShared

Next ==
    \/ \E line \in LineInputs : Produce_push_line(line)
    \/ Produce_clear
    \/ \E cursor \in CursorInputs : Produce_set_cursor(cursor)
    \/ \E row \in RowInputs, line \in LineInputs : Produce_update_line(row, line)
    \/ ReceiveOperation
    \/ \E curr_dims \in DimsInputs, curr_origin \in OriginInputs : DrawPass(curr_dims, curr_origin)

Spec == Init /\ [][Next]_vars

-----------------------------------------------------------------------------
(* SpecScreen: calls of the mutators on a Screen that starts empty; returned *)
(* collects the operations the calls return.                                 *)

Call(r) ==
    /\ Len(returned) < MaxCalls
    /\ screen' = r.screen
    /\ returned' = Append(returned, r.op)
    /\ UNCHANGED <<renderVars, classified, dispatchVars, workerVars, frame, lockVars, auxVars>>

Call_push_line(line) == Call(push_line(screen, line))

Call_clear == Call(clear(screen))

Call_update_line(row, line) == Call(update_line(screen, row, line))

NextScreen ==
    \/ \E line \in LineInputs : Call_push_line(line)
    \/ Call_clear
    \/ \E row \in RowInputs, line \in LineInputs : Call_update_line(row, line)

SpecScreen == InitShared /\ [][NextScreen]_vars

(* SpecTokenize: tokenize_command applied to a command line *)

TokenChars == {"a", " ", "\t", "'", "\"", "\\"}

RECURSIVE SeqsUpTo(_, _)
SeqsUpTo(S, n) ==
    IF n = 0 THEN {<<>>}
    ELSE LET shorter == SeqsUpTo(S, n - 1)
         IN  shorter \cup {Append(s, c) : s \in {t \in shorter : Len(t) = n - 1}, c \in S}

\* the command lines: every text of at most MaxInput characters
CommandLineInputs == SeqsUpTo(TokenChars, MaxInput)

Tokenize(input) ==
    /\ tokenized' = [called |-> TRUE, input |-> input, tokens |-> tokenize_command(input)]
    /\ UNCHANGED <<screenVars, renderVars, classified, dispatchVars, workerVars, frame,
                   lockVars, reload, engine>>

\* one call in a run
NextTokenize ==
    /\ ~tokenized.called
    /\ \E input \in CommandLineInputs : Tokenize(input)

SpecTokenize == InitShared /\ [][NextTokenize]_vars

(* SpecCursor: SpecScreen with the calls of set_cursor *)

\* the Cursors set_cursor is called with: rows up to and past the end of the Screen
CursorCallInputs == {[row |-> r, col |-> c] : r \in RowInputs, c \in 0..1}

Call_set_cursor(cursor) == Call(set_cursor(screen, cursor))

NextCursor ==
    \/ NextScreen
    \/ \E cursor \in CursorCallInputs : Call_set_cursor(cursor)

SpecCursor == InitShared /\ [][NextCursor]_vars

-----------------------------------------------------------------------------
(* SpecClassify: the classifier applied to an operation *)

OpInputs ==
    {PushLine(line) : line \in LineInputs}
    \cup {Clear}
    \cup {SetCursor([row |-> r, col |-> c]) : r \in 0..MaxOpCursor, c \in 0..MaxOpCursor}
    \cup {UpdateLine(row, line) : row \in 0..MaxOpRow, line \in LineInputs}

Classify(op) ==
    /\ classified' = [op |-> op, category |-> category(op), metadata |-> metadata(op)]
    /\ UNCHANGED <<screenVars, renderVars, dispatchVars, workerVars, frame, lockVars, auxVars>>

NextClassify == \E op \in OpInputs : Classify(op)

SpecClassify == InitShared /\ [][NextClassify]_vars

-----------------------------------------------------------------------------
(* SpecDispatch: the dispatcher called on the frames' input, under an active *)
(* mode and a mode-definition list that stay as they are                     *)

PollAndMap(raw_events) ==
    /\ dispatched' = [call |-> "poll_and_map", raw_events |-> raw_events,
                      targets |-> poll_and_map(raw_events, mode, mode_definitions)]
    /\ UNCHANGED <<screenVars, renderVars, classified, mode, mode_definitions, workerVars, frame, lockVars, auxVars>>

\* map_input reads binding.action: it is called on tables that bind Actions only
ActionsOnly(definitions) ==
    \A i \in 1..Len(definitions) : \A k \in 1..Len(definitions[i].bindings) :
        definitions[i].bindings[k].target.kind = "Action"

MapInput(event) ==
    /\ ActionsOnly(mode_definitions)
    /\ dispatched' = [call |-> "map_input", event |-> event,
                      action |-> map_input(mode_definitions, event, mode)]
    /\ UNCHANGED <<screenVars, renderVars, classified, mode, mode_definitions, workerVars, frame, lockVars, auxVars>>

InitDispatch ==
    /\ InitDisplay
    /\ mode \in ModeInputs
    /\ mode_definitions \in DefinitionInputs

NextDispatch ==
    \/ \E raw_events \in RawFrames : PollAndMap(raw_events)
    \/ \E event \in EventInputs : MapInput(event)

SpecDispatch == InitDispatch /\ [][NextDispatch]_vars

-----------------------------------------------------------------------------
(* SpecSuppress: the dispatcher under one definition whose bindings of one   *)
(* key reach every kind of target: the Actions Insert mode leaves to the     *)
(* text widget, another Action, a macro.  (MoveCursor has no configuration   *)
(* syntax; the binding table admits it.)                                     *)

SuppressBindingInputs ==
    {KeyBinding(InputEvent_Key("Backspace", FALSE, FALSE, FALSE), target) :
        target \in {BindingTarget_Action(Action_Backspace),
                    BindingTarget_Action(Action_Delete),
                    BindingTarget_Action(Action_MoveCursor(-1, 0)),
                    BindingTarget_Action(Action_Submit),
                    BindingTarget_Macro("m")}}
SuppressDefinitionInputs ==
    {<<ModeDefinition(m, b)>> :
        m \in ModeInputs,
        b \in UNION {[1..n -> SuppressBindingInputs] : n \in 1..MaxBindings}}

InitSuppress ==
    /\ InitDisplay
    /\ mode \in ModeInputs
    /\ mode_definitions \in SuppressDefinitionInputs

SpecSuppress == InitSuppress /\ [][NextDispatch]_vars

-----------------------------------------------------------------------------
(* SpecWorker: the presentation side sends the Actions of one input session  *)
(* on action_tx; the worker thread receives them one at a time and handles   *)
(* each (shell.rs); the children it spawned write their lines (backend.rs);  *)
(* the presentation side receives the operations.                            *)

\* the AppendChar Actions that typing the text sends
Typed(text) == [k \in 1..Len(text) |-> Action_AppendChar(SubSeq(text, k, k))]

SessionInputs ==
    {Typed("echo hi") \o <<Action_Submit>>,
     Typed(" pwd ") \o <<Action_Submit>>,
     Typed(" ") \o <<Action_Submit>>,
     <<Action_Submit>>,
     Typed("x") \o <<Action_Submit>>,
     Typed("exit") \o <<Action_Submit>>,
     Typed("clear") \o <<Action_Submit>>,
     <<Action_AppendChar("x"), Action_Backspace, Action_Backspace, Action_Clear>>,
     <<Action_AppendChar("x"), Action_RunCommand(Chars("echo hi")), Action_Submit>>,
     <<Action_AppendChar("x"), Action_RunCommand(Chars(" clear")), Action_Delete,
       Action_Backspace>>,
     <<Action_ChangeMode(TerminalMode_Normal), Action_RunCommand(Chars("config load")),
       Action_MoveCursor(1, 0), Action_ChangeMode(TerminalMode_Insert), Action_Submit>>,
     <<Action_ChangeMode(TerminalMode_Custom("CMD")), Action_NoOp,
       Action_RunCommand(Chars("ls")), Action_RunCommand(Chars("exit")), Action_Submit>>}

\* the Screens a session can start on: empty, or with a line and a moved cursor
ScreenInputs ==
    {Screen_new}
    \cup {set_cursor(push_line(Screen_new, line).screen, cursor).screen :
            line \in LineInputs, cursor \in CursorInputs}

\* the lines a child writes: stdout in the text colour, stderr in red
StreamInputs == {[text |-> Chars("o"), stderr |-> FALSE], [text |-> Chars("e"), stderr |-> TRUE]}

\* process::exit has not been called
Running == worker.at # "exited"

\* action_tx.send(action) in update
Send ==
    /\ Running
    /\ session # <<>>
    /\ Len(action_chan) < MaxActions
    /\ action_chan' = Append(action_chan, Head(session))
    /\ session' = Tail(session)
    /\ UNCHANGED <<screenVars, renderVars, classified, dispatchVars, shell, worker, frame, lockVars, auxVars>>

\* action_rx.recv() returns an Action of the given variant
Receive(tag) ==
    /\ worker.at = "recv"
    /\ action_chan # <<>>
    /\ Head(action_chan).tag = tag
    /\ action_chan' = Tail(action_chan)

\* the worker's record when it has handled the Action: it goes to the given place,
\* having sent ops
Handling(action, at, cmd_line, ops) ==
    [at |-> at,
     cmd_line |-> cmd_line,
     actions |-> IF shell.input_buffer = <<>> THEN <<action>> ELSE Append(worker.actions, action),
     ops |-> (IF shell.input_buffer = <<>> THEN <<>> ELSE worker.ops) \o ops,
     streams |-> worker.streams]

\* a step of the worker or of a child: the state it leaves and the operations it sent
Worked(scr, sh, m, defs, ops, w) ==
    /\ Len(output_chan) + Len(ops) <= MaxChan
    /\ Len(scr.lines) <= MaxLines
    /\ screen' = scr
    /\ shell' = sh
    /\ mode' = m
    /\ mode_definitions' = defs
    /\ output_chan' = output_chan \o ops
    /\ worker' = w
    /\ surface' = NoPass
    /\ UNCHANGED <<returned, renderer, last_drawn, handled, classified, dispatched, session,
                   frame, lockVars, auxVars>>

Worker_AppendChar ==
    /\ Receive("AppendChar")
    /\ LET action == Head(action_chan)
       IN  Worked(screen, [shell EXCEPT !.input_buffer = Append(@, action.ch)],
                  mode, mode_definitions, <<>>, Handling(action, "recv", <<>>, <<>>))

Worker_Backspace ==
    /\ Receive("Backspace")
    /\ Worked(screen,
              [shell EXCEPT !.input_buffer = IF @ = <<>> THEN @ ELSE SubSeq(@, 1, Len(@) - 1)],
              mode, mode_definitions, <<>>, Handling(Head(action_chan), "recv", <<>>, <<>>))

\* a Submit arm that echoes the trimmed buffer
Worker_Submit_echo_trimmed ==
    /\ Receive("Submit")
    /\ LET line == shell.input_buffer
           r == push_line(screen, Line_from_string(shell.prompt \o trim(line),
                                                   shell.prompt_color))
       IN  Worked(r.screen, [shell EXCEPT !.input_buffer = <<>>], mode, mode_definitions,
                  <<r.op>>, Handling(Head(action_chan), "execute", line, <<r.op>>))

\* the locked block of the Submit arm; execute_command follows as Worker_Execute
Worker_Submit ==
    /\ Receive("Submit")
    /\ LET line == shell.input_buffer
           r == push_line(screen, Line_from_string(shell.prompt \o line, shell.prompt_color))
       IN  Worked(r.screen, [shell EXCEPT !.input_buffer = <<>>], mode, mode_definitions,
                  <<r.op>>, Handling(Head(action_chan), "execute", line, <<r.op>>))

Worker_Clear ==
    /\ Receive("Clear")
    /\ LET r == clear(screen)
       IN  Worked(r.screen, shell, mode, mode_definitions, <<r.op>>,
                  Handling(Head(action_chan), "recv", <<>>, <<r.op>>))

Worker_ChangeMode ==
    /\ Receive("ChangeMode")
    /\ LET new_mode == Head(action_chan).mode
       IN  Worked(screen,
                  [shell EXCEPT !.window_title_full = title_of(new_mode, shell.window_title_base),
                                !.title_updated = TRUE],
                  new_mode, mode_definitions, <<>>,
                  Handling(Head(action_chan), "recv", <<>>, <<>>))

\* a RunCommand arm that echoes the command after the prompt, as Submit does
Worker_RunCommand_echoing ==
    /\ Receive("RunCommand")
    /\ LET cmd == Head(action_chan).cmd
           r == push_line(screen, Line_from_string(shell.prompt \o cmd, shell.prompt_color))
       IN  Worked(r.screen, shell, mode, mode_definitions, <<r.op>>,
                  Handling(Head(action_chan), "execute", cmd, <<r.op>>))

\* the RunCommand arm up to its call of execute_command
Worker_RunCommand ==
    /\ Receive("RunCommand")
    /\ Worked(screen, shell, mode, mode_definitions, <<>>,
              Handling(Head(action_chan), "execute", Head(action_chan).cmd, <<>>))

\* the arm _ => {}
Worker_Ignore ==
    /\ \E tag \in {"Delete", "MoveCursor", "NoOp"} : Receive(tag)
    /\ Worked(screen, shell, mode, mode_definitions, <<>>,
              Handling(Head(action_chan), "recv", <<>>, <<>>))

\* what recv answers with once every Sender is dropped and the queue is empty
Disconnected == [tag |-> "Disconnected"]

\* the TerminalApp is dropped, and action_tx with it: nothing more is sent, and
\* the worker finds the channel closed after what was already queued
App_Drop ==
    /\ Running
    /\ worker.at # "stopped"
    /\ \A k \in 1..Len(action_chan) : action_chan[k] # Disconnected
    /\ action_chan' = Append(action_chan, Disconnected)
    /\ session' = <<>>
    /\ UNCHANGED <<screenVars, renderVars, classified, dispatchVars, shell, worker, frame, lockVars, auxVars>>

\* action_rx.recv() returns Err: the loop breaks and the thread ends
Worker_Disconnected ==
    /\ Receive("Disconnected")
    /\ Worked(screen, shell, mode, mode_definitions, <<>>, [worker EXCEPT !.at = "stopped"])

\* execute_command(cmd_line), called by the Submit and RunCommand arms
Worker_Execute ==
    /\ worker.at = "execute"
    /\ \E o \in execute_command(worker.cmd_line, screen, shell, mode, mode_definitions) :
          Worked(o.screen, o.shell, mode, o.mode_definitions, o.ops,
                 [worker EXCEPT !.at = IF o.exited THEN "exited"
                                       ELSE IF o.panicked THEN "panicked" ELSE "recv",
                                !.cmd_line = <<>>,
                                !.ops = @ \o o.ops,
                                !.streams = @ + o.streams])
    /\ UNCHANGED action_chan

\* one iteration of the loop of a child's reader thread
StreamLine(l) ==
    /\ Running
    /\ worker.streams > 0
    /\ LET r == push_line(screen, Line_from_string(l.text, IF l.stderr THEN RED
                                                           ELSE shell.text_color))
       IN  Worked(r.screen, shell, mode, mode_definitions, <<r.op>>,
                  [worker EXCEPT !.streams = @ - 1])
    /\ UNCHANGED action_chan

InitWorker ==
    /\ screen \in ScreenInputs
    /\ returned = <<>>
    /\ output_chan = <<>>
    /\ renderer = TerminalRenderer_default
    /\ surface = NoPass
    /\ last_drawn = <<>>
    /\ handled = NothingHandled
    /\ classified = [op |-> NoOp]
    /\ dispatched = [call |-> "none"]
    /\ mode = TerminalMode_Insert
    /\ mode_definitions = DefaultModeDefinitions
    /\ shell = ShellState_new
    /\ action_chan = <<>>
    /\ worker = WorkerIdle
    /\ session \in SessionInputs
    /\ frame = FrameStart
    /\ lock = "free"
    /\ threads = ThreadsIdle
    /\ applied = <<>>
    /\ reload = ReloadIdle
    /\ engine = LuaEngine_new
    /\ tokenized = NotTokenized

NextWorker ==
    \/ Send
    \/ Worker_AppendChar
    \/ Worker_Backspace
    \/ Worker_Submit
    \/ Worker_Clear
    \/ Worker_ChangeMode
    \/ Worker_RunCommand
    \/ Worker_Ignore
    \/ Worker_Execute
    \/ App_Drop
    \/ Worker_Disconnected
    \/ \E l \in StreamInputs : StreamLine(l)
    \/ (Running /\ ReceiveOperation)

SpecWorker == InitWorker /\ [][NextWorker]_vars

-----------------------------------------------------------------------------
(* SpecMode: every step of the source that writes ShellState.mode: the      *)
(* worker of SpecWorker and the key intercept at the head of update in      *)
(* main.rs, the program's entry point.                                      *)

\* the Global Key Intercept of update: Escape toggles between Insert and Normal;
\* the I key, when the mode read at the head of the frame is Normal, enters Insert
Update_KeyIntercept(escape, i_key) ==
    /\ Running
    /\ LET current_mode == mode
           toggled == IF mode = TerminalMode_Insert THEN TerminalMode_Normal
                      ELSE TerminalMode_Insert
           m1 == IF escape THEN toggled ELSE mode
           entered == current_mode = TerminalMode_Normal /\ i_key
           m2 == IF entered THEN TerminalMode_Insert ELSE m1
       IN  /\ escape \/ entered
           /\ mode' = m2
           /\ shell' = [shell EXCEPT
                          !.window_title_full = title_debug_of(m2, shell.window_title_base),
                          !.title_updated = TRUE]
    /\ UNCHANGED <<screenVars, renderVars, classified, mode_definitions, dispatched,
                   action_chan, worker, session, frame, lockVars, auxVars>>

NextMode ==
    \/ NextWorker
    \/ \E escape \in BOOLEAN, i_key \in BOOLEAN : Update_KeyIntercept(escape, i_key)

SpecMode == InitWorker /\ [][NextMode]_vars

-----------------------------------------------------------------------------
(* SpecInput: the input part of update (app.rs) beside the worker.  A frame  *)
(* reads the active mode once, captures its input events, then maps each    *)
(* with that mode and sends the Action; the worker handles the Actions in   *)
(* its own time.  dispatched holds the frame's position: the mode it read,  *)
(* the events still to map, and the last mapping.  expected is the mode the *)
(* events captured so far ask for: the mode at startup, then the mode of    *)
(* the last ChangeMode an event was mapped to.                               *)

InputLoopEvents ==
    {InputEvent_Key("Escape", FALSE, FALSE, FALSE),
     InputEvent_Key("I", FALSE, FALSE, FALSE),
     InputEvent_Text(<<"i">>)}
CapturedFrames == UNION {[1..n -> InputLoopEvents] : n \in 1..MaxCaptured}

\* the frame is between two frames' input parts
InputLoopIdle ==
    \/ dispatched.call = "none"
    \/ dispatched.call = "update" /\ dispatched.events = <<>>

\* let (current_mode, ..) = { let s = lock(); (s.mode.clone(), ..) }; ctx.input(..)
Update_Capture(events) ==
    /\ Running
    /\ InputLoopIdle
    /\ IF dispatched.call = "none" THEN TRUE ELSE dispatched.frames < MaxInputFrames
    /\ dispatched' = [call |-> "update",
                      frames |-> IF dispatched.call = "none" THEN 1 ELSE dispatched.frames + 1,
                      current_mode |-> mode,
                      events |-> events,
                      position |-> 0,
                      expected |-> IF dispatched.call = "none" THEN mode ELSE dispatched.expected,
                      mapped |-> None]
    /\ UNCHANGED <<screenVars, renderVars, classified, mode, mode_definitions, workerVars, frame, lockVars, auxVars>>

\* one iteration of: for event in events { if let Some(action) =
\* self.map_input(&event, &current_mode) { action_tx.send(action) } }
Update_MapInput ==
    /\ Running
    /\ dispatched.call = "update"
    /\ dispatched.events # <<>>
    /\ LET event == Head(dispatched.events)
           action == map_input(mode_definitions, event, dispatched.current_mode)
       IN  /\ action.some => Len(action_chan) < MaxActions
           /\ action_chan' = IF action.some THEN Append(action_chan, action.val) ELSE action_chan
           /\ dispatched' = [dispatched EXCEPT
                               !.events = Tail(@),
                               !.position = @ + 1,
                               !.expected = IF action.some /\ action.val.tag = "ChangeMode"
                                            THEN action.val.mode ELSE @,
                               !.mapped = Some([event |-> event,
                                                position |-> dispatched.position + 1,
                                                current_mode |-> dispatched.current_mode,
                                                expected |-> dispatched.expected,
                                                action |-> action])]
    /\ UNCHANGED <<screenVars, renderVars, classified, mode, mode_definitions, shell, worker, session, frame, lockVars, auxVars>>

NextInput ==
    \/ \E events \in CapturedFrames : Update_Capture(events)
    \/ Update_MapInput
    \/ Worker_ChangeMode
    \/ Worker_AppendChar
    \/ Worker_Clear
    \/ (Running /\ ReceiveOperation)

SpecInput == InitShared /\ [][NextInput]_vars

-----------------------------------------------------------------------------
(* SpecEdit: the two writers of the input buffer while the mode is Insert.   *)
(* A frame of update maps its input events and sends the Actions, then      *)
(* draws the TextEdit over s.input_buffer under the lock; the TextEdit,     *)
(* when it has the keyboard focus, applies the frame's text and Backspace   *)
(* events to the buffer itself.  update asks for the focus after the        *)
(* TextEdit is added, in every frame whose mode is Insert, so the widget    *)
(* has it from the second frame on.  The worker handles the Actions in its  *)
(* own time.  dispatched counts what was typed: typed characters and        *)
(* erased Backspace presses.                                                 *)

EditEvents ==
    {InputEvent_Text(<<"a">>), InputEvent_Key("Backspace", FALSE, FALSE, FALSE)}
EditFrames == UNION {[1..n -> EditEvents] : n \in 1..MaxCaptured}

\* the Actions the loop over the frame's events sends
RECURSIVE send_mapped(_, _, _)
send_mapped(definitions, events, current_mode) ==
    IF events = <<>> THEN <<>>
    ELSE LET action == map_input(definitions, Head(events), current_mode)
             rest == send_mapped(definitions, Tail(events), current_mode)
         IN  IF action.some THEN <<action.val>> \o rest ELSE rest

\* the buffer after a focused TextEdit::singleline has taken the events
RECURSIVE text_edit(_, _)
text_edit(buffer, events) ==
    IF events = <<>> THEN buffer
    ELSE LET event == Head(events)
             edited == IF event.kind = "Text" THEN buffer \o event.text
                       ELSE IF event.code = "Backspace" /\ buffer # <<>>
                            THEN SubSeq(buffer, 1, Len(buffer) - 1)
                            ELSE buffer
         IN  text_edit(edited, Tail(events))

CountKind(events, kind) == Cardinality({k \in 1..Len(events) : events[k].kind = kind})

\* the input part of a frame: the mode is read, the events are captured and mapped
Edit_Input(events) ==
    /\ Running
    /\ IF dispatched.call = "none" THEN TRUE
       ELSE dispatched.at = "input" /\ dispatched.frames < MaxInputFrames
    /\ LET actions == send_mapped(mode_definitions, events, mode)
           before == IF dispatched.call = "none"
                     THEN [frames |-> 0, typed |-> 0, erased |-> 0, focus |-> FALSE]
                     ELSE dispatched
       IN  /\ Len(action_chan) + Len(actions) <= MaxActions
           /\ action_chan' = action_chan \o actions
           /\ dispatched' = [call |-> "edit", at |-> "text_edit",
                             frames |-> before.frames + 1,
                             events |-> events,
                             typed |-> before.typed + CountKind(events, "Text"),
                             erased |-> before.erased + CountKind(events, "Key"),
                             focus |-> before.focus]
    /\ UNCHANGED <<screenVars, renderVars, classified, mode, mode_definitions, shell, worker, session, frame, lockVars, auxVars>>

\* the drawing part of the frame: ui.add(text_edit) over &mut s.input_buffer, then
\* re.request_focus() when the mode is Insert
Edit_TextEdit ==
    /\ Running
    /\ dispatched.call = "edit"
    /\ dispatched.at = "text_edit"
    /\ shell' = [shell EXCEPT !.input_buffer =
                    IF dispatched.focus THEN text_edit(@, dispatched.events) ELSE @]
    /\ dispatched' = [dispatched EXCEPT !.at = "input",
                                        !.events = <<>>,
                                        !.focus = @ \/ mode = TerminalMode_Insert]
    /\ UNCHANGED <<screenVars, renderVars, classified, mode, mode_definitions, action_chan, worker, session, frame, lockVars, auxVars>>

NextEdit ==
    \/ \E events \in EditFrames : Edit_Input(events)
    \/ Edit_TextEdit
    \/ Worker_AppendChar
    \/ Worker_Backspace

SpecEdit == InitShared /\ [][NextEdit]_vars

-----------------------------------------------------------------------------
(* SpecFrame: the worker and the children of SpecWorker send operations, and *)
(* the presentation loop runs its frames (app.rs, update): the drain loop    *)
(* receives until try_recv finds the channel empty, then the frame draws.    *)
(* Every update ends in request_repaint, so the frames never stop while the  *)
(* process runs: SpecFrameLive adds weak fairness of the frame's steps.      *)

\* one iteration of the drain loop: try_recv returned an operation, which is
\* classified and handed to the renderer's handler
Frame_Drain ==
    /\ Running
    /\ frame.at = "drain"
    /\ output_chan # <<>>
    /\ LET op == Head(output_chan)
       IN  /\ category(op) = "Visual" => handled.visual < MaxVisualRun
           /\ renderer' = CASE category(op) = "Structural" -> on_structural_change(renderer)
                            [] category(op) = "Visual" -> on_visual_change(renderer, op)
                            [] category(op) = "Cursor" -> on_cursor_change(renderer)
           /\ handled' = Handled(handled, op)
           /\ frame' = [frame EXCEPT !.drained = @ + 1, !.received = Append(@, op)]
    /\ output_chan' = Tail(output_chan)
    /\ surface' = NoPass
    /\ UNCHANGED <<screen, returned, last_drawn, classified, dispatchVars, workerVars, lockVars, auxVars>>

\* a frame that leaves the drain loop whatever is still queued
Frame_DrainDone_leaving_backlog ==
    /\ Running
    /\ frame.at = "drain"
    /\ frame' = [frame EXCEPT !.at = "draw"]
    /\ surface' = NoPass
    /\ UNCHANGED <<screen, returned, output_chan, renderer, last_drawn, handled, classified,
                   dispatchVars, workerVars, lockVars, auxVars>>

\* try_recv found the channel empty: the loop ends and update goes on
Frame_DrainDone ==
    /\ Running
    /\ frame.at = "drain"
    /\ output_chan = <<>>
    /\ frame' = [frame EXCEPT !.at = "draw"]
    /\ surface' = NoPass
    /\ UNCHANGED <<screen, returned, output_chan, renderer, last_drawn, handled, classified,
                   dispatchVars, workerVars, lockVars, auxVars>>

\* the rest of update: the draw pass over the Screen as it is now; request_repaint
\* schedules the next frame, which begins with what is queued by then
Frame_Draw(curr_dims, curr_origin) ==
    /\ Running
    /\ frame.at = "draw"
    /\ LET d == draw(renderer, curr_dims, curr_origin, screen)
       IN  /\ renderer' = d.renderer
           /\ surface' = [pass |-> "draw",
                          repeated |-> (surface.pass = "draw"),
                          laid_out |-> d.laid_out,
                          painted |-> [k \in 1..Len(d.painted) |-> d.painted[k].row],
                          cursor_rect |-> d.cursor_rect]
    /\ last_drawn' = screen.lines
    /\ handled' = NothingHandled
    /\ frame' = [frame EXCEPT !.at = "drain", !.backlog = Len(output_chan), !.drained = 0]
    /\ UNCHANGED <<screen, returned, output_chan, classified, dispatchVars, workerVars, lockVars, auxVars>>

FrameStep ==
    \/ Frame_Drain
    \/ Frame_DrainDone
    \/ \E curr_dims \in DimsInputs, curr_origin \in OriginInputs :
          Frame_Draw(curr_dims, curr_origin)

NextFrame ==
    \/ Send
    \/ Worker_AppendChar
    \/ Worker_Backspace
    \/ Worker_Submit
    \/ Worker_Clear
    \/ Worker_ChangeMode
    \/ Worker_RunCommand
    \/ Worker_Ignore
    \/ Worker_Execute
    \/ \E l \in StreamInputs : StreamLine(l)
    \/ FrameStep

SpecFrame == InitWorker /\ [][NextFrame]_vars

SpecFrameLive == SpecFrame /\ WF_vars(FrameStep)

-----------------------------------------------------------------------------
(* SpecLock: the worker, the two reader threads of a child and the           *)
(* presentation thread, each taking the steps of its code one at a time      *)
(* around the Mutex of the ShellState.                                       *)

\* what no step of these threads changes
lockStill == <<returned, renderer, surface, handled, classified, dispatched, auxVars>>

\* the sessions: the Actions the presentation thread sends, in order
LockSessionInputs ==
    {Typed("x") \o <<Action_Submit, Action_Clear>>,
     <<Action_RunCommand(Chars("cat f")), Action_Backspace>>,
     <<Action_RunCommand(Chars("config load")), Action_ChangeMode(TerminalMode_Normal)>>,
     <<Action_RunCommand(Chars("x")), Action_RunCommand(Chars("pwd"))>>,
     <<Action_RunCommand(Chars("ls")), Action_RunCommand(Chars("exit")), Action_Submit>>,
     <<Action_RunCommand(Chars("cd /tmp")), Action_RunCommand(Chars("rm f")), Action_NoOp>>}

Next_of(t) == Head(threads[t].prog)

\* the thread is at a step of the given kinds
At(t, kinds) == Running /\ threads[t].prog # <<>> /\ Next_of(t).i \in kinds

\* the thread has taken its step
Stepped(t, th) == threads' = [threads EXCEPT ![t] = [th EXCEPT !.prog = Tail(threads[t].prog)]]

\* the colour a push_line is given
Colour(t, fg) ==
    CASE fg = "text_color" -> shell.text_color
      [] fg = "snapshot_text_color" -> threads[t].snap.text_color
      [] fg = "snapshot_dir_color" -> threads[t].snap.directory_color
      [] OTHER -> fg

\* the program with the command line taken from the buffer bound in it
Bind(prog, cmd_line) ==
    [k \in 1..Len(prog) |->
        IF prog[k] = I_ExecTaken THEN I_Exec(cmd_line) ELSE prog[k]]

\* action_rx.recv() returns: the worker enters the arm of the Action
Lock_Recv ==
    /\ Running
    /\ worker.at = "recv"
    /\ threads["worker"].prog = <<>>
    /\ action_chan # <<>>
    /\ action_chan' = Tail(action_chan)
    /\ threads' = [threads EXCEPT !["worker"].prog = Program_of(Head(action_chan))]
    /\ UNCHANGED <<screen, output_chan, last_drawn, mode, mode_definitions, shell, worker,
                   session, frame, lock, applied, lockStill>>

\* thread_state.lock().unwrap() returns
Lock_Acquire(t) ==
    /\ At(t, {"Lock"})
    /\ lock = "free"
    /\ lock' = t
    /\ Stepped(t, [threads[t] EXCEPT !.held = 0])
    /\ UNCHANGED <<screen, output_chan, last_drawn, mode, mode_definitions, shell, action_chan,
                   worker, session, frame, applied, lockStill>>

\* the guard is dropped
Lock_Release(t) ==
    /\ At(t, {"Unlock"})
    /\ lock' = "free"
    /\ Stepped(t, threads[t])
    /\ UNCHANGED <<screen, output_chan, last_drawn, mode, mode_definitions, shell, action_chan,
                   worker, session, frame, applied, lockStill>>

\* a mutation of the Screen: s.screen.push_line(..) or s.screen.clear()
Lock_Mutate(t) ==
    /\ At(t, {"Push", "PushDir", "TakeEcho", "Clear"})
    /\ LET ins == Next_of(t)
           line == shell.input_buffer
           r == CASE ins.i = "Push" ->
                       push_line(screen, Line_from_string(ins.text, Colour(t, ins.fg)))
                  [] ins.i = "PushDir" ->
                       push_line(screen, Line_from_string(shell.current_dir, shell.text_color))
                  [] ins.i = "TakeEcho" ->
                       push_line(screen, Line_from_string(shell.prompt \o line,
                                                          shell.prompt_color))
                  [] ins.i = "Clear" -> clear(screen)
       IN  /\ screen' = r.screen
           /\ applied' = Append(applied, r.op)
           /\ shell' = IF ins.i = "TakeEcho" THEN [shell EXCEPT !.input_buffer = <<>>]
                       ELSE shell
           /\ threads' = [threads EXCEPT ![t] =
                            [prog |-> IF ins.i = "TakeEcho" THEN Bind(Tail(@.prog), line)
                                      ELSE Tail(@.prog),
                             op |-> r.op, held |-> @.held + 1, snap |-> @.snap]]
    /\ UNCHANGED <<output_chan, last_drawn, mode, mode_definitions, action_chan, worker,
                   session, frame, lock, lockStill>>

\* output_tx.send(ShellEvent::Operation(op))
Lock_Send(t) ==
    /\ At(t, {"Send"})
    /\ output_chan' = Append(output_chan, threads[t].op)
    /\ Stepped(t, threads[t])
    /\ UNCHANGED <<screen, last_drawn, mode, mode_definitions, shell, action_chan, worker,
                   session, frame, lock, applied, lockStill>>

\* a call into the file system, the process table or a child's pipe returns
Lock_Io(t) ==
    /\ At(t, {"Io"})
    /\ Stepped(t, threads[t])
    /\ UNCHANGED <<screen, output_chan, last_drawn, mode, mode_definitions, shell, action_chan,
                   worker, session, frame, lock, applied, lockStill>>

\* values are copied out of the ShellState: the colours by execute_command, the
\* lines of the Screen by update
Lock_Snapshot(t) ==
    /\ At(t, {"Snapshot"})
    /\ Stepped(t, [threads[t] EXCEPT !.snap =
                     IF t = "present" THEN screen.lines
                     ELSE [text_color |-> shell.text_color,
                           directory_color |-> shell.directory_color]])
    /\ UNCHANGED <<screen, output_chan, last_drawn, mode, mode_definitions, shell, action_chan,
                   worker, session, frame, lock, applied, lockStill>>

\* a write to a field of the ShellState other than the Screen
Lock_Write(t) ==
    /\ At(t, {"AppendChar", "Pop", "SetMode", "SetDir", "Merge"})
    /\ LET ins == Next_of(t)
       IN  /\ mode' = IF ins.i = "SetMode" THEN ins.mode ELSE mode
           /\ mode_definitions' = IF ins.i = "Merge"
                                  THEN merge_definitions(mode_definitions, ins.update)
                                  ELSE mode_definitions
           /\ shell' =
                CASE ins.i = "AppendChar" -> [shell EXCEPT !.input_buffer = Append(@, ins.ch)]
                  [] ins.i = "Pop" ->
                       [shell EXCEPT !.input_buffer =
                                        IF @ = <<>> THEN @ ELSE SubSeq(@, 1, Len(@) - 1)]
                  [] ins.i = "SetMode" ->
                       [shell EXCEPT !.window_title_full =
                                        title_of(ins.mode, shell.window_title_base),
                                     !.title_updated = TRUE]
                  [] ins.i = "SetDir" -> [shell EXCEPT !.current_dir = ins.dir]
                  [] ins.i = "Merge" -> merge(shell, ins.update, ins.actual_cwd, mode)
    /\ Stepped(t, threads[t])
    /\ UNCHANGED <<screen, output_chan, last_drawn, action_chan, worker, session, frame, lock,
                   applied, lockStill>>

\* execute_command is entered: the text selects the arm, the operating system
\* what the arm's calls will answer
Lock_Exec ==
    /\ At("worker", {"Exec"})
    /\ \E p \in exec_programs(Next_of("worker").cmd) :
          threads' = [threads EXCEPT !["worker"].prog = p \o Tail(@)]
    /\ UNCHANGED <<screen, output_chan, last_drawn, mode, mode_definitions, shell, action_chan,
                   worker, session, frame, lock, applied, lockStill>>

\* backend.spawn started a child and the two threads that read what it writes
Lock_Spawn ==
    /\ At("worker", {"Spawn"})
    /\ threads["stdout"].prog = <<>>
    /\ threads["stderr"].prog = <<>>
    /\ LET ins == Next_of("worker")
       IN  threads' = [threads EXCEPT
                         !["worker"].prog = Tail(@),
                         !["stdout"].prog = stream_program(ins.out, "text_color"),
                         !["stderr"].prog = stream_program(ins.err, RED)]
    /\ UNCHANGED <<screen, output_chan, last_drawn, mode, mode_definitions, shell, action_chan,
                   worker, session, frame, lock, applied, lockStill>>

\* std::process::exit(0): every thread ends where it is
Lock_Exit ==
    /\ At("worker", {"Exit"})
    /\ worker' = [worker EXCEPT !.at = "exited"]
    /\ Stepped("worker", threads["worker"])
    /\ UNCHANGED <<screen, output_chan, last_drawn, mode, mode_definitions, shell, action_chan,
                   session, frame, lock, applied, lockStill>>

\* a call panics: the worker's thread unwinds and ends, the other threads go on
Lock_Panic ==
    /\ At("worker", {"Panic"})
    /\ worker' = [worker EXCEPT !.at = "panicked"]
    /\ threads' = [threads EXCEPT !["worker"].prog = <<>>]
    /\ UNCHANGED <<screen, output_chan, last_drawn, mode, mode_definitions, shell, action_chan,
                   session, frame, lock, applied, lockStill>>

\* update is called for the next frame
Lock_Frame ==
    /\ Running
    /\ threads["present"].prog = <<>>
    /\ \E events \in 0..MaxEvents :
          threads' = [threads EXCEPT !["present"].prog = Program_update(events)]
    /\ UNCHANGED <<screen, output_chan, last_drawn, mode, mode_definitions, shell, action_chan,
                   worker, session, frame, lock, applied, lockStill>>

\* the drain loop: try_recv returns an operation, or the loop ends
Lock_Drain ==
    /\ At("present", {"Drain"})
    /\ IF output_chan # <<>>
       THEN /\ frame' = [frame EXCEPT !.received = Append(@, Head(output_chan))]
            /\ output_chan' = Tail(output_chan)
            /\ UNCHANGED threads
       ELSE /\ Stepped("present", threads["present"])
            /\ UNCHANGED <<frame, output_chan>>
    /\ UNCHANGED <<screen, last_drawn, mode, mode_definitions, shell, action_chan, worker,
                   session, lock, applied, lockStill>>

\* the title check: a changed title goes to the viewport and the flag is reset
Lock_Title ==
    /\ At("present", {"Title"})
    /\ shell' = [shell EXCEPT !.title_updated = FALSE]
    /\ Stepped("present", threads["present"])
    /\ UNCHANGED <<screen, output_chan, last_drawn, mode, mode_definitions, action_chan, worker,
                   session, frame, lock, applied, lockStill>>

\* what the user can have typed into the TextEdit since the last frame
TypedInputs == {<<>>, <<"y">>}

\* a drawing call: the status bar, the rows of the snapshot and the cursor, or the
\* TextEdit, which writes what was typed into the buffer it was given
Lock_Draw(typed) ==
    /\ At("present", {"Draw"})
    /\ LET ins == Next_of("present")
       IN  /\ last_drawn' = IF ins.what = "rows" THEN threads["present"].snap ELSE last_drawn
           /\ IF ins.what = "text_edit"
              THEN /\ typed # <<>> => Len(shell.input_buffer) + Len(typed) <= MaxTyped
                   /\ shell' = [shell EXCEPT !.input_buffer = @ \o typed]
              ELSE /\ typed = <<>>
                   /\ UNCHANGED shell
    /\ Stepped("present", threads["present"])
    /\ UNCHANGED <<screen, output_chan, mode, mode_definitions, action_chan, worker, session,
                   frame, lock, applied, lockStill>>

LockThreads == {"worker", "stdout", "stderr", "present"}

InitLock ==
    /\ screen = Screen_new
    /\ returned = <<>>
    /\ output_chan = <<>>
    /\ renderer = TerminalRenderer_default
    /\ surface = NoPass
    /\ last_drawn = <<>>
    /\ handled = NothingHandled
    /\ classified = [op |-> NoOp]
    /\ dispatched = [call |-> "none"]
    /\ mode = TerminalMode_Insert
    /\ mode_definitions = DefaultModeDefinitions
    /\ shell = ShellState_new
    /\ action_chan = <<>>
    /\ worker = WorkerIdle
    /\ session \in LockSessionInputs
    /\ frame = FrameStart
    /\ lock = "free"
    /\ threads = ThreadsIdle
    /\ applied = <<>>
    /\ reload = ReloadIdle
    /\ engine = LuaEngine_new
    /\ tokenized = NotTokenized

NextLock ==
    \/ Send
    \/ Lock_Recv
    \/ \E t \in LockThreads : Lock_Acquire(t)
    \/ \E t \in LockThreads : Lock_Release(t)
    \/ \E t \in LockThreads : Lock_Mutate(t)
    \/ \E t \in LockThreads : Lock_Send(t)
    \/ \E t \in LockThreads : Lock_Io(t)
    \/ \E t \in LockThreads : Lock_Snapshot(t)
    \/ \E t \in LockThreads : Lock_Write(t)
    \/ Lock_Exec
    \/ Lock_Spawn
    \/ Lock_Exit
    \/ Lock_Panic
    \/ Lock_Frame
    \/ Lock_Drain
    \/ Lock_Title
    \/ \E typed \in TypedInputs : Lock_Draw(typed)

SpecLock == InitLock /\ [][NextLock]_vars

(* SpecLockLive: SpecLock with the scheduling the threads run under.  The    *)
(* operating system keeps running the thread that holds the Mutex, and a    *)
(* thread parked in lock() gets the Mutex at one of the moments it is free. *)

\* a step of the thread other than the return of lock()
ThreadStep(t) ==
    \/ Lock_Release(t)
    \/ Lock_Mutate(t)
    \/ Lock_Send(t)
    \/ Lock_Io(t)
    \/ Lock_Snapshot(t)
    \/ Lock_Write(t)
    \/ (t = "worker" /\ (Lock_Exec \/ Lock_Spawn \/ Lock_Exit \/ Lock_Panic))
    \/ (t = "present" /\ (Lock_Drain \/ Lock_Title \/ \E typed \in TypedInputs : Lock_Draw(typed)))

\* a step of the thread that holds the Mutex
HolderStep == \E t \in LockThreads : lock = t /\ ThreadStep(t)

LockFairness ==
    /\ WF_vars(HolderStep)
    /\ \A t \in LockThreads : SF_vars(Lock_Acquire(t))

\* the sessions of SpecLockLive: a child with its two reader threads, the one
\* guard cat holds over a whole file, a config load, and a session that exits
LockLiveSessionInputs ==
    {<<Action_RunCommand(Chars("x"))>>,
     <<Action_RunCommand(Chars("cat f")), Action_Backspace>>,
     <<Action_RunCommand(Chars("config load")), Action_ChangeMode(TerminalMode_Normal)>>,
     <<Action_RunCommand(Chars("ls")), Action_RunCommand(Chars("exit")), Action_Submit>>}

InitLockLive ==
    /\ screen = Screen_new
    /\ returned = <<>>
    /\ output_chan = <<>>
    /\ renderer = TerminalRenderer_default
    /\ surface = NoPass
    /\ last_drawn = <<>>
    /\ handled = NothingHandled
    /\ classified = [op |-> NoOp]
    /\ dispatched = [call |-> "none"]
    /\ mode = TerminalMode_Insert
    /\ mode_definitions = DefaultModeDefinitions
    /\ shell = ShellState_new
    /\ action_chan = <<>>
    /\ worker = WorkerIdle
    /\ session \in LockLiveSessionInputs
    /\ frame = FrameStart
    /\ lock = "free"
    /\ threads = ThreadsIdle
    /\ applied = <<>>
    /\ reload = ReloadIdle
    /\ engine = LuaEngine_new
    /\ tokenized = NotTokenized

SpecLockLive == InitLockLive /\ [][NextLock]_vars /\ LockFairness

-----------------------------------------------------------------------------
(* SpecReload: the watcher's callback, the frames of TerminalApp::update as   *)
(* far as they poll config_rx, and the passing of time                        *)

ElapseInputs == {100, 500}

\* time passes
Reload_Elapse(d) ==
    /\ reload.now + d <= MaxTime
    /\ reload' = [reload EXCEPT !.now = @ + d]
    /\ UNCHANGED <<screenVars, renderVars, classified, dispatchVars, workerVars, frame,
                   lockVars, engine, tokenized>>

\* the watcher's callback on a Modify event: tx.send(())
Reload_Signal ==
    /\ reload.signals < MaxSignals
    /\ reload' = [reload EXCEPT !.config_chan = Append(@, reload.now),
                                !.signals = @ + 1]
    /\ UNCHANGED <<screenVars, renderVars, classified, dispatchVars, workerVars, frame,
                   lockVars, engine, tokenized>>

\* update, app.rs:188-193: at most one signal is received in a frame, and the time
\* since the last reload is taken when it is received
Reload_Frame ==
    /\ reload.config_chan # <<>>
    /\ LET arrived == Head(reload.config_chan)
           reloads == reload.now - reload.last_reload > Window
       IN  /\ reload' = [reload EXCEPT
                  !.config_chan = Tail(@),
                  !.last_reload = IF reloads THEN reload.now ELSE @,
                  !.sent = IF reloads
                           THEN Append(@, [at |-> reload.now, arrived |-> arrived])
                           ELSE @]
           /\ action_chan' = IF reloads
                             THEN Append(action_chan, Action_RunCommand(Chars("config load")))
                             ELSE action_chan
    /\ UNCHANGED <<screenVars, renderVars, classified, dispatchVars, shell, worker, session,
                   frame, lockVars, engine, tokenized>>

InitReload == InitShared

NextReload ==
    \/ \E d \in ElapseInputs : Reload_Elapse(d)
    \/ Reload_Signal
    \/ Reload_Frame

SpecReload == InitReload /\ [][NextReload]_vars

(* SpecReloadLive: SpecReload in which update goes on being called (eframe   *)
(* calls it for every frame) and time goes on passing                        *)

SpecReloadLive ==
    /\ SpecReload
    /\ WF_vars(Reload_Frame)
    /\ WF_vars(\E d \in ElapseInputs : Reload_Elapse(d))

-----------------------------------------------------------------------------
(* SpecMacro: a LuaEngine whose globals the loaded configurations set, and    *)
(* the calls of resolve_macro                                                 *)

MacroNames == {"m", "n"}

Repeated(v, n) == [k \in 1..n |-> v]

\* the lists the macros of the model return
Body_SubmitClear == <<LuaString(Chars("Submit")), LuaString(Chars("Clear"))>>
Body_Invalid ==
    <<LuaString(Chars("Submit")), LuaString(Chars("bogus")), LuaString(Chars("Clear"))>>
Body_Mixed ==
    <<LuaString(Chars("Enter")), LuaNumber, LuaBytes, LuaString(Chars("ChangeMode(Normal)")),
      LuaString(Chars("RunCommand(ls)")), LuaString(Chars("InsertChar(x)")),
      LuaString(Chars("x"))>>
Body_NoChar == <<LuaString(Chars("x")), LuaString(Chars("InsertChar()"))>>
Body_TwoBytes == <<LuaString(Chars("x")), LuaString(<<"U+00E9">>)>>
Body_AtLimit == Repeated(LuaString(Chars("NoOp")), MAX_MACRO_ACTIONS)
Body_OverLimit == Repeated(LuaString(Chars("NoOp")), MAX_MACRO_ACTIONS + 1)
Body_AtLimitAndOthers == <<LuaNumber>> \o Body_AtLimit \o <<LuaBytes>>
Body_OverLimitInvalidLast == Body_AtLimit \o <<LuaString(Chars("bogus"))>>
Body_OverLimitInvalidFirst == <<LuaString(Chars("bogus"))>> \o Body_AtLimit

\* the globals in which axiom.macros holds m and n (nil is no entry)
Globals(m, n) ==
    LET value(name) == IF name = "m" THEN m ELSE n
        macros == [name \in {x \in MacroNames : value(x) # LuaNil} |-> value(name)]
    IN  LuaTable([g \in {"axiom"} |-> LuaTable([f \in {"macros"} |-> LuaTable(macros)])])

\* the globals a configuration script can leave behind
GlobalsInputs ==
    {Globals_new,
     LuaTable([g \in {"axiom"} |-> LuaNumber]),
     LuaTable([g \in {"axiom"} |-> LuaTable([f \in {"macros"} |-> LuaNumber])]),
     Globals(LuaFunction(LuaTable(Body_SubmitClear)), LuaNil),
     Globals(LuaFunction(LuaTable(Body_Invalid)), LuaFunction(LuaTable(<<LuaString(Chars("a"))>>))),
     Globals(LuaFunction(LuaTable(Body_Mixed)), LuaString(Chars("x"))),
     Globals(LuaFunction(LuaTable(Body_NoChar)), LuaRaising),
     Globals(LuaFunction(LuaTable(Body_TwoBytes)), LuaFunction(LuaNumber)),
     Globals(LuaFunction(LuaTable(<<>>)), LuaNil),
     Globals(LuaFunction(LuaTable(Body_AtLimit)), LuaNil),
     Globals(LuaFunction(LuaTable(Body_OverLimit)), LuaNil),
     Globals(LuaFunction(LuaTable(Body_AtLimitAndOthers)), LuaNil),
     Globals(LuaFunction(LuaTable(Body_OverLimitInvalidLast)), LuaNil),
     Globals(LuaFunction(LuaTable(Body_OverLimitInvalidFirst)), LuaNil)}

\* what a call is remembered by: the name, and the length of the Actions or the error
Resolved(name, result) ==
    IF result.ok THEN [name |-> name, ok |-> TRUE, count |-> Len(result.actions)]
    ELSE [name |-> name, ok |-> FALSE, error |-> result.error]

\* LuaEngine::load_config: the script of the file runs and sets the globals
Engine_LoadConfig(globals) ==
    /\ globals # engine.globals
    /\ engine' = [engine EXCEPT !.globals = globals]
    /\ UNCHANGED <<screenVars, renderVars, classified, dispatchVars, workerVars, frame,
                   lockVars, reload, tokenized>>

\* LuaEngine::resolve_macro
Engine_ResolveMacro(name) ==
    /\ Len(engine.calls) < MaxResolves
    /\ LET result == resolve_macro_internal(engine.globals, name)
       IN  engine' = [engine EXCEPT
               !.invocations = recorded(@, name, result),
               !.resolved = Some([name |-> name, globals |-> engine.globals,
                                  result |-> result]),
               !.calls = Append(@, Resolved(name, result))]
    /\ UNCHANGED <<screenVars, renderVars, classified, dispatchVars, workerVars, frame,
                   lockVars, reload, tokenized>>

InitMacro == InitShared

NextMacro ==
    \/ \E globals \in GlobalsInputs : Engine_LoadConfig(globals)
    \/ \E name \in MacroNames : Engine_ResolveMacro(name)

SpecMacro == InitMacro /\ [][NextMacro]_vars

-----------------------------------------------------------------------------
(* Properties of the render cache, under Spec *)

\* the cache entry of row r (rows past the end of the cache have none)
Entry(cache, r) == IF r < Len(cache) THEN cache[r + 1] ELSE None

NoEntryPresent(cache) == \A i \in 1..Len(cache) : ~cache[i].some

SomeEntryPresent(cache) == \E i \in 1..Len(cache) : cache[i].some

CacheRows == 0..(MaxLines + 1)

\* the step is the drain loop handing an operation of this category to the renderer
Handles(cat) == ReceiveOperation /\ category(Head(output_chan)) = cat

GeometryKept(curr_dims, curr_origin) ==
    curr_dims = renderer.last_render_dims /\ curr_origin = renderer.cached_origin

\* C2: once the renderer has handled a Structural operation (PushLine or Clear), no
\* row of the render cache has an entry, whatever the cache held before, and this
\* stays so until the next draw pass.
C2_StructuralDiscardsAll ==
    handled.structural => NoEntryPresent(renderer.screen_cache)

\* C2 witness: a pass cached at least one row and a Structural operation, and no
\* Visual one, was handled after it.
C2_Witness ==
    /\ last_drawn # <<>>
    /\ handled.structural /\ handled.visual = 0

\* C3 as the spec states it: after a Visual operation with impact Single(r), row r
\* has no entry and every other row's entry is exactly what it was.
C3_VisualKeepsOtherRows ==
    [][Handles("Visual") =>
        LET r == Head(output_chan).row
        IN  /\ ~Entry(renderer'.screen_cache, r).some
            /\ \A i \in CacheRows \ {r} :
                   Entry(renderer'.screen_cache, i) = Entry(renderer.screen_cache, i)]_vars

\* C3 amended: after a Visual operation with impact Single(r), row r has no entry.
\* When it is the first Visual operation handled since the last draw pass, no
\* Structural one was handled since then and r is a row of the cache, every other
\* entry is exactly what it was; otherwise every entry of the cache is discarded.
C3_VisualInvalidation ==
    [][Handles("Visual") =>
        LET r == Head(output_chan).row
            cache == renderer.screen_cache
        IN  /\ ~Entry(renderer'.screen_cache, r).some
            /\ IF handled.visual = 0 /\ ~handled.structural /\ r < Len(cache)
               THEN /\ Len(renderer'.screen_cache) = Len(cache)
                    /\ \A i \in CacheRows \ {r} :
                          Entry(renderer'.screen_cache, i) = Entry(cache, i)
               ELSE NoEntryPresent(renderer'.screen_cache)]_vars

\* C3 witness: one Visual operation was handled since the last pass and the cache
\* holds a row without an entry next to a row that kept its entry.
C3_Witness ==
    /\ handled.visual = 1 /\ ~handled.structural
    /\ SomeEntryPresent(renderer.screen_cache)
    /\ \E i \in 1..Len(renderer.screen_cache) : ~renderer.screen_cache[i].some

\* C4: handling a Cursor operation (SetCursor) leaves every entry of the render
\* cache as it was, and the next draw pass, whatever geometry it finds, lays out
\* exactly the rows it would have laid out without the operation.
C4_CursorLeavesCache ==
    [][Handles("Cursor") =>
        /\ renderer'.screen_cache = renderer.screen_cache
        /\ \A d \in DimsInputs, o \in OriginInputs :
              draw(renderer', d, o, screen).laid_out = draw(renderer, d, o, screen).laid_out]_vars

\* C4 witness: a Cursor operation, and nothing else, was handled since a pass that
\* cached at least one row, and the entry is still there.
C4_Witness ==
    /\ handled.cursor /\ ~handled.structural /\ handled.visual = 0
    /\ SomeEntryPresent(renderer.screen_cache)

\* C5 as the spec states it: a draw pass that follows a draw pass with no operation
\* handled in between, over the same Screen content, lays out no row.
C5_SecondPassRebuildsNothing ==
    [][\A d \in DimsInputs, o \in OriginInputs :
        (/\ DrawPass(d, o)
         /\ handled = NothingHandled
         /\ screen.lines = last_drawn)
        => surface'.laid_out = {}]_vars

\* C5 amended: a draw pass that follows a draw pass with no operation handled in
\* between, over the same Screen content and in a viewport of the same size and
\* scroll origin, lays out no row: every row is served from its cache entry.
C5_SecondPassSameGeometry ==
    [][\A d \in DimsInputs, o \in OriginInputs :
        (/\ DrawPass(d, o)
         /\ handled = NothingHandled
         /\ screen.lines = last_drawn
         /\ GeometryKept(d, o))
        => /\ surface'.laid_out = {}
           /\ renderer'.screen_cache = renderer.screen_cache]_vars

\* C5 witness: a pass that directly followed a pass drew a Screen with rows and laid
\* out none of them.
C5_Witness ==
    /\ surface.pass = "draw" /\ surface.repeated
    /\ last_drawn # <<>> /\ surface.laid_out = {}

\* a row of the Screen now drawn that the previous pass did not draw
NewRow(r) == r >= Len(last_drawn)

\* C6 as the spec states it: a pass recomputes a row only if the row's content or
\* the geometry changed since the row was last computed; a row whose content the
\* operations handled since the last pass left as it was is drawn from the cache.
C6_RecomputedOnlyOnChange ==
    [][\A d \in DimsInputs, o \in OriginInputs :
        DrawPass(d, o) =>
            \A r \in surface'.laid_out :
                \/ ~GeometryKept(d, o)
                \/ NewRow(r)
                \/ screen.lines[r + 1] # last_drawn[r + 1]]_vars

\* C6 amended: a pass recomputes a row only if, since the previous pass, a
\* Structural or a Visual operation was handled, or the viewport size or the scroll
\* origin changed, or the row was not drawn by the previous pass; it recomputes the
\* row once, and every row it does not recompute keeps the cache entry it had.
C6_RecomputedOnlyAfterInvalidation ==
    [][\A d \in DimsInputs, o \in OriginInputs :
        DrawPass(d, o) =>
            /\ \A r \in surface'.laid_out :
                  \/ handled.structural
                  \/ handled.visual > 0
                  \/ ~GeometryKept(d, o)
                  \/ NewRow(r)
            /\ \A r \in 0..(Len(screen.lines) - 1) :
                  r \notin surface'.laid_out =>
                      Entry(renderer'.screen_cache, r) = Entry(renderer.screen_cache, r)]_vars

\* C6 witness: a pass over two rows recomputed the first one, which a Visual
\* operation had invalidated, and drew the second one from its cache entry.
C6_Witness ==
    /\ surface.pass = "draw" /\ Len(last_drawn) = 2
    /\ surface.laid_out = {0}

\* C7 as the spec states it: a pass hands the painter the shapes of the rows whose
\* entry it rebuilt and of no row whose entry it reused.
C7_PaintsOnlyRebuiltRows ==
    surface.pass = "draw" =>
        \A k \in 1..Len(surface.painted) : surface.painted[k] \in surface.laid_out

\* C7 amended: a pass hands the painter the shapes of every row of the Screen it
\* draws, in row order, of the rows whose entry it reused as of the rows whose entry
\* it rebuilt; only the layout of a row is skipped when its entry is reused.
C7_PaintsEveryRow ==
    surface.pass = "draw" =>
        /\ surface.painted = [k \in 1..Len(last_drawn) |-> k - 1]
        /\ surface.laid_out \subseteq 0..(Len(last_drawn) - 1)

\* C7 witness: a pass painted two rows and had rebuilt neither.
C7_Witness ==
    /\ surface.pass = "draw" /\ surface.laid_out = {}
    /\ Len(surface.painted) = 2

-----------------------------------------------------------------------------
(* Properties of the classifier, under SpecClassify *)

\* C8: for every row r and line, UpdateLine(r, line) is Visual with impact Single(r);
\* PushLine(line) and Clear are Structural with impact Unbounded.
C8_UpdateVisualPushClearStructural ==
    /\ classified.op.tag = "UpdateLine" =>
          /\ classified.category = "Visual"
          /\ classified.metadata.impact = Single(classified.op.row)
    /\ classified.op.tag \in {"PushLine", "Clear"} =>
          /\ classified.category = "Structural"
          /\ classified.metadata.impact = Unbounded

\* C8 witness: an UpdateLine of a row other than row 0 was classified.
C8_Witness == classified.op.tag = "UpdateLine" /\ classified.op.row > 0

\* the rows an impact names as affected (Unbounded names no row in particular: it
\* stands for all of them)
RowsNamed(impact) ==
    CASE impact.kind = "Single" -> {impact.row}
      [] impact.kind = "Multi" -> {impact.rows[k] : k \in 1..Len(impact.rows)}
      [] impact.kind = "Unbounded" -> 0..MaxOpRow

\* C9 as the spec states it: SetCursor(c) is of the Cursor category and its metadata
\* reports zero line impact: no row is named as affected and caused_scroll is false.
C9_CursorZeroImpact ==
    classified.op.tag = "SetCursor" =>
        /\ classified.category = "Cursor"
        /\ RowsNamed(classified.metadata.impact) = {}
        /\ classified.metadata.caused_scroll = FALSE

\* C9 amended: SetCursor(c) is of the Cursor category and its metadata has
\* caused_scroll false and impact Single(0) for every cursor c, whatever c.row is:
\* row 0 is named as a placeholder.
C9_CursorSingleZero ==
    classified.op.tag = "SetCursor" =>
        /\ classified.category = "Cursor"
        /\ classified.metadata = [impact |-> Single(0), caused_scroll |-> FALSE]

\* C9 witness: a SetCursor whose cursor is not on row 0 was classified.
C9_Witness == classified.op.tag = "SetCursor" /\ classified.op.cursor.row > 0

-----------------------------------------------------------------------------
(* Properties of the dispatcher, under SpecDispatch *)

Min(S) == CHOOSE x \in S : \A y \in S : x <= y

\* the binding the claim names for an event: of the first definition of the active
\* mode, the first binding, in declaration order, whose event equals the event
\* (NoBinding when the mode has no definition or no binding of it has the event)
NoBinding == [bound |-> FALSE]
FirstBinding(event) ==
    LET defs == {i \in 1..Len(mode_definitions) : mode_definitions[i].mode = mode}
    IN  IF defs = {} THEN NoBinding
        ELSE LET bindings == mode_definitions[Min(defs)].bindings
                 equal == {k \in 1..Len(bindings) : bindings[k].event = event}
             IN  IF equal = {} THEN NoBinding
                 ELSE [bound |-> TRUE, target |-> bindings[Min(equal)].target]

\* a target the Insert mode leaves to the text widget
LeftToTextEdit(target) ==
    /\ mode = TerminalMode_Insert
    /\ target.kind = "Action"
    /\ target.action.tag \in {"Backspace", "Delete", "MoveCursor"}

\* the targets of the first bindings of a sequence of events, in order
RECURSIVE FirstTargets(_)
FirstTargets(events) ==
    IF events = <<>> THEN <<>>
    ELSE LET b == FirstBinding(Head(events))
         IN  (IF b.bound THEN IF LeftToTextEdit(b.target) THEN <<>> ELSE <<b.target>>
              ELSE <<>>)
             \o FirstTargets(Tail(events))

\* C10: with the mode-definition list and the active mode as they are, every call of
\* the dispatcher selects, for an input event, the first binding in declaration
\* order of the active mode's definition whose event equals the input event, and
\* never a later one: poll_and_map emits that binding's target (nothing when Insert
\* mode leaves it to the text widget), map_input returns that binding's Action,
\* however many calls came before.
C10_FirstMatchSelected ==
    /\ dispatched.call = "poll_and_map" =>
          dispatched.targets = FirstTargets(capture(dispatched.raw_events))
    /\ dispatched.call = "map_input" =>
          LET b == FirstBinding(dispatched.event)
          IN  b.bound => dispatched.action = Some(b.target.action)

\* C10 witness: the active mode's definition binds the event of the frame twice, to
\* different targets, and poll_and_map emitted the target of the first binding.
C10_Witness ==
    /\ dispatched.call = "poll_and_map"
    /\ Len(capture(dispatched.raw_events)) = 1
    /\ \E i \in 1..Len(mode_definitions) :
          /\ mode_definitions[i].mode = mode
          /\ \A j \in 1..(i - 1) : mode_definitions[j].mode # mode
          /\ LET bindings == mode_definitions[i].bindings
                 event == capture(dispatched.raw_events)[1]
             IN  /\ Len(bindings) = 2
                 /\ bindings[1].event = event /\ bindings[2].event = event
                 /\ bindings[1].target # bindings[2].target
                 /\ dispatched.targets = <<bindings[1].target>>

\* the Actions a dispatcher call yielded, in order: the Action targets poll_and_map
\* emitted, or the Action map_input returned
Yielded ==
    IF dispatched.call = "poll_and_map"
    THEN [k \in 1..Len(dispatched.targets) |-> dispatched.targets[k].action]
    ELSE IF dispatched.action.some THEN <<dispatched.action.val>> ELSE <<>>

\* the input events the last dispatcher call was given, in order
EventsGiven ==
    CASE dispatched.call = "map_input" -> <<dispatched.event>>
      [] dispatched.call = "poll_and_map" -> capture(dispatched.raw_events)
      [] OTHER -> <<>>

\* C11 as the spec states it: in Insert mode, a text event that no binding of the
\* Insert definition has and that carries n >= 1 characters yields exactly n
\* append-character Actions, one per character, in the order of the text.
C11_OneAppendPerCharacter ==
    (/\ Len(EventsGiven) = 1
     /\ mode = TerminalMode_Insert
     /\ EventsGiven[1].kind = "Text"
     /\ ~FirstBinding(EventsGiven[1]).bound)
    => Yielded = [k \in 1..Len(EventsGiven[1].text) |->
                    Action_AppendChar(EventsGiven[1].text[k])]

\* no event of the sequence has a binding in the active mode's definition, or the
\* active mode has no definition
NoneBound(events) == \A k \in 1..Len(events) : ~FirstBinding(events[k]).bound

\* C12: in an active mode other than Insert, a dispatcher call given input events
\* (key chords or texts) of which none has a binding in the active mode's
\* definition, or whose mode has no definition, yields nothing (poll_and_map emits
\* no target, map_input returns no Action) and changes nothing of the state: the
\* Screen, the active mode, the mode definitions, the channel and the renderer are
\* as they were.
C12_UnboundIgnored ==
    [][(/\ dispatched'.call # "none"
        /\ mode # TerminalMode_Insert
        /\ NoneBound(EventsGiven'))
       => /\ dispatched'.call = "poll_and_map" => dispatched'.targets = <<>>
          /\ dispatched'.call = "map_input" => dispatched'.action = None
          /\ UNCHANGED <<screenVars, renderVars, classified, mode, mode_definitions, workerVars, frame, lockVars, auxVars>>]_vars

\* C12 witness: in Normal mode, whose definition has a binding, poll_and_map was
\* given one event that the definition does not bind and emitted nothing.
C12_Witness ==
    /\ dispatched.call = "poll_and_map"
    /\ mode = TerminalMode_Normal
    /\ Len(EventsGiven) = 1 /\ NoneBound(EventsGiven)
    /\ \E i \in 1..Len(mode_definitions) :
          mode_definitions[i].mode = mode /\ mode_definitions[i].bindings # <<>>
    /\ dispatched.targets = <<>>

-----------------------------------------------------------------------------
(* Properties of the Insert-mode suppression, under SpecSuppress *)

\* C13: poll_and_map given one event whose first binding in the active mode's
\* definition exists: in Insert mode it emits nothing when that binding's target is
\* the Action Backspace, Delete or MoveCursor, also when a later binding has the
\* same event, and emits the target when it is a macro; in every other mode it
\* emits that binding's target whatever it is.
C13_InsertSuppression ==
    (/\ dispatched.call = "poll_and_map"
     /\ Len(EventsGiven) = 1
     /\ FirstBinding(EventsGiven[1]).bound)
    => LET target == FirstBinding(EventsGiven[1]).target
       IN  IF mode = TerminalMode_Insert
           THEN /\ (/\ target.kind = "Action"
                    /\ target.action.tag \in {"Backspace", "Delete", "MoveCursor"})
                   => dispatched.targets = <<>>
                /\ target.kind = "Macro" => dispatched.targets = <<target>>
           ELSE dispatched.targets = <<target>>

\* C13 witness: in Insert mode the definition binds the event first to Delete and
\* then to a macro, and poll_and_map emitted nothing.
C13_Witness ==
    /\ dispatched.call = "poll_and_map"
    /\ mode = TerminalMode_Insert
    /\ Len(EventsGiven) = 1
    /\ mode_definitions[1].mode = mode
    /\ LET bindings == mode_definitions[1].bindings
       IN  /\ Len(bindings) = 2
           /\ bindings[1] = KeyBinding(EventsGiven[1], BindingTarget_Action(Action_Delete))
           /\ bindings[2] = KeyBinding(EventsGiven[1], BindingTarget_Macro("m"))
    /\ dispatched.targets = <<>>

-----------------------------------------------------------------------------
(* Properties of the worker, under SpecWorker and SpecMode *)

\* the step is the worker receiving and handling an Action of the given variant
HandledStep(tag) ==
    /\ worker.at = "recv"
    /\ action_chan # <<>>
    /\ Head(action_chan).tag = tag
    /\ action_chan' = Tail(action_chan)

\* C14: handling ChangeMode(m) sets the active mode to m and regenerates the window
\* title from it, and no step other than the worker handling a ChangeMode Action
\* changes the active mode.
C14_ModeOnlyThroughChangeMode ==
    [][/\ HandledStep("ChangeMode") =>
            /\ mode' = Head(action_chan).mode
            /\ shell'.window_title_full = title_of(mode', shell.window_title_base)
            /\ shell'.title_updated
       /\ mode' # mode => HandledStep("ChangeMode")]_vars

\* the characters of a Line
LineText(line) == [k \in 1..Len(line) |-> line[k].ch]

Last(seq) == seq[Len(seq)]

\* the step is the worker's call of execute_command returning, the call made by the
\* arm of the given Action variant
ExecutedStep(tag) ==
    /\ worker.at = "execute"
    /\ worker'.at # "execute"
    /\ Last(worker.actions).tag = tag

\* the step does to the Screen, the shell state and the operation channel what
\* execute_command does when given the text
Executes(text) ==
    \E o \in execute_command(text, screen, shell, mode, mode_definitions) :
        /\ screen' = o.screen
        /\ shell' = o.shell
        /\ mode_definitions' = o.mode_definitions
        /\ output_chan' = output_chan \o o.ops
        /\ worker'.ops = worker.ops \o o.ops

\* C15: handling Submit with input buffer b and prompt p empties the input buffer,
\* appends one line whose text is p followed by b, untrimmed, and sends the PushLine
\* of that line; the command runs afterwards, on trim(b), so its operations follow
\* the echo on the channel; when trim(b) is empty the execution sends nothing and
\* leaves the Screen as it is.
C15_SubmitEchoesThenExecutes ==
    [][/\ HandledStep("Submit") =>
            LET b == shell.input_buffer
                p == shell.prompt
            IN  /\ shell'.input_buffer = <<>>
                /\ Len(screen'.lines) = Len(screen.lines) + 1
                /\ SubSeq(screen'.lines, 1, Len(screen.lines)) = screen.lines
                /\ LineText(Last(screen'.lines)) = p \o b
                /\ output_chan' = Append(output_chan, PushLine(Last(screen'.lines)))
                /\ worker'.at = "execute"
                /\ worker'.cmd_line = b
                /\ worker'.ops # <<>> /\ Last(worker'.ops) = PushLine(Last(screen'.lines))
       /\ ExecutedStep("Submit") =>
            LET b == worker.cmd_line
            IN  /\ worker.ops # <<>>
                /\ Last(worker.ops).tag = "PushLine"
                /\ LineText(Last(worker.ops).line) = shell.prompt \o b
                /\ Executes(trim(b))
                /\ trim(b) = <<>> => output_chan' = output_chan /\ screen' = screen]_vars

\* a Submit of the buffer " pwd " has been handled and its command has run: the
\* echo carries the blanks, the command ran without them
C15_Witness ==
    /\ worker.at = "recv"
    /\ worker.actions = Typed(" pwd ") \o <<Action_Submit>>
    /\ shell.input_buffer = <<>>
    /\ worker.ops = <<PushLine(Line_from_string(Chars(">  pwd "), GREEN)),
                      PushLine(Line_from_string(Chars("/"), LIGHT_GRAY))>>

\* the texts of the lines that a sequence of PushLine operations carries
RECURSIVE PushedTexts(_)
PushedTexts(ops) ==
    IF ops = <<>> THEN <<>>
    ELSE <<IF Head(ops).tag = "PushLine" THEN LineText(Head(ops).line) ELSE Head(ops).tag>>
         \o PushedTexts(Tail(ops))

EchoHi == Typed("echo hi") \o <<Action_Submit>>

\* C16: when the worker, since it received an Action with the input buffer empty, has
\* handled the AppendChar Actions of 'e','c','h','o',' ','h','i' and then Submit, the
\* operations it has sent since are the PushLine of prompt + "echo hi" while the
\* command is still to run, and after it exactly that PushLine followed by the
\* PushLine of "hi".
C16_EchoHiScenario ==
    worker.actions = EchoHi =>
        /\ \A k \in 1..Len(worker.ops) : worker.ops[k].tag = "PushLine"
        /\ PushedTexts(worker.ops) =
              IF worker.at = "execute" THEN <<shell.prompt \o Chars("echo hi")>>
              ELSE <<shell.prompt \o Chars("echo hi"), Chars("hi")>>

\* the scenario has run to its end on a Screen that was empty
C16_Witness ==
    /\ worker.at = "recv"
    /\ worker.actions = EchoHi
    /\ session = <<>> /\ action_chan = <<>>
    /\ Len(worker.ops) = 2
    /\ [k \in 1..Len(screen.lines) |-> LineText(screen.lines[k])]
          = <<Chars("> echo hi"), Chars("hi")>>

\* the command word of a command line
CommandWord(cmd_line) ==
    IF tokenize_command(trim(cmd_line)) = <<>> THEN <<>>
    ELSE tokenize_command(trim(cmd_line))[1]

\* C17: whatever the lines and the cursor of the Screen, clear gives a Screen with no
\* line and the cursor at row 0, column 0, and returns Clear; a step in which the
\* worker handles the Clear Action or runs the built-in clear command leaves the
\* Screen so and sends the Clear operation.
C17_ClearResets ==
    [][/\ clear(screen).screen.lines = <<>>
       /\ clear(screen).screen.cursor = [row |-> 0, col |-> 0]
       /\ clear(screen).op = Clear
       /\ (\/ HandledStep("Clear")
           \/ (worker.at = "execute" /\ worker'.at # "execute"
                 /\ CommandWord(worker.cmd_line) = Chars("clear")))
          => /\ screen'.lines = <<>>
             /\ screen'.cursor = [row |-> 0, col |-> 0]
             /\ output_chan' = Append(output_chan, Clear)]_vars

\* the built-in clear has run on a Screen that held the echo of its command line
C17_Witness ==
    /\ worker.at = "recv"
    /\ worker.actions = Typed("clear") \o <<Action_Submit>>
    /\ Len(worker.ops) = 2
    /\ worker.ops[1].tag = "PushLine"
    /\ worker.ops[2] = Clear
    /\ screen.lines = <<>>
    /\ screen.cursor = [row |-> 0, col |-> 0]

\* C18: handling RunCommand(text) sends nothing and leaves the Screen and the input
\* buffer as they are before it calls execute_command on text; the execution does
\* what execute_command does with text, so the operations sent are the command's
\* own, and it leaves the input buffer as it is.
C18_RunCommandBypassesBuffer ==
    [][/\ HandledStep("RunCommand") =>
            /\ shell' = shell
            /\ screen' = screen
            /\ output_chan' = output_chan
            /\ worker'.at = "execute"
            /\ worker'.cmd_line = Head(action_chan).cmd
       /\ ExecutedStep("RunCommand") =>
            /\ Executes(worker.cmd_line)
            /\ shell'.input_buffer = shell.input_buffer]_vars

\* RunCommand("echo hi") has run while the input buffer held "x": the one operation
\* sent is the PushLine of "hi", and the buffer still holds "x"
C18_Witness ==
    /\ worker.at = "recv"
    /\ worker.actions = <<Action_AppendChar("x"), Action_RunCommand(Chars("echo hi"))>>
    /\ worker.ops = <<PushLine(Line_from_string(Chars("hi"), LIGHT_GRAY))>>
    /\ shell.input_buffer = <<"x">>

-----------------------------------------------------------------------------
(* Properties of the operation channel, under SpecFrameLive *)

\* every operation sent so far, in the order sent: those received, then those queued
Log == frame.received \o output_chan

IsPrefix(a, b) == Len(a) <= Len(b) /\ SubSeq(b, 1, Len(a)) = a

\* numbers of operations a session sends
OpCounts == 1..(MaxLines + 1)

\* a step keeps what was sent and its order; a reception takes the oldest queued
\* operation and hands it to the renderer's handler for its category; a draw pass
\* runs only after its frame has received at least as many operations as were
\* queued when the frame began
OrderedDrainBeforeDraw ==
    [][/\ IsPrefix(Log, Log')
       /\ frame'.received # frame.received =>
            /\ output_chan # <<>>
            /\ frame'.received = Append(frame.received, Head(output_chan))
            /\ output_chan' = Tail(output_chan)
            /\ renderer' =
                 CASE category(Head(output_chan)) = "Structural" ->
                        on_structural_change(renderer)
                   [] category(Head(output_chan)) = "Visual" ->
                        on_visual_change(renderer, Head(output_chan))
                   [] category(Head(output_chan)) = "Cursor" -> on_cursor_change(renderer)
       /\ (frame.at = "draw" /\ frame'.at = "drain") => frame.drained >= frame.backlog]_vars

-----------------------------------------------------------------------------
(* Properties of the Screen mutators, under SpecScreen *)

\* an operation applied through the mutator that returns it
Apply(s, op) ==
    CASE op.tag = "PushLine" -> push_line(s, op.line).screen
      [] op.tag = "Clear" -> clear(s).screen
      [] op.tag = "SetCursor" -> set_cursor(s, op.cursor).screen
      [] op.tag = "UpdateLine" -> update_line(s, op.row, op.line).screen

RECURSIVE Replay(_, _)
Replay(s, ops) == IF ops = <<>> THEN s ELSE Replay(Apply(s, Head(ops)), Tail(ops))

\* C1: replaying the operations returned by any sequence of push_line / clear /
\* update_line calls, in order, on a second empty Screen gives a Screen equal to the
\* first one: same lines, same cursor, same dirty flag.
C1_ReplayReproducesScreen == Replay(Screen_new, returned) = screen

\* C19: a call update_line(row, line) always returns: with row below the line count it
\* replaces that row, leaves every other row and the count as they are and returns
\* UpdateLine(row, line); with row equal to the count or above it, it appends line as
\* the new last row and returns PushLine(line).
C19_UpdateLineReplacesOrAppends ==
    [][\A row \in RowInputs, line \in LineInputs :
          LET r == update_line(screen, row, line)
              n == Len(screen.lines)
          IN  (screen' = r.screen /\ returned' = Append(returned, r.op)) =>
                IF row < n
                THEN /\ Len(screen'.lines) = n
                     /\ screen'.lines[row + 1] = line
                     /\ \A k \in 1..n : k # row + 1 => screen'.lines[k] = screen.lines[k]
                     /\ returned'[Len(returned')] = UpdateLine(row, line)
                ELSE /\ screen'.lines = Append(screen.lines, line)
                     /\ returned'[Len(returned')] = PushLine(line)]_vars

\* update_line has been given a row past the end of a one-line Screen and has appended
\* the line (a push_line would have written the dirty flag, which a replay of the
\* returned operations therefore has set)
C19_Witness ==
    /\ Len(returned) = 2
    /\ returned[2] = PushLine(Line_from_string(<<"b">>, LIGHT_GRAY))
    /\ screen.lines = <<Line_from_string(<<"a">>, LIGHT_GRAY),
                        Line_from_string(<<"b">>, LIGHT_GRAY)>>
    /\ Replay(Screen_new, returned) # screen

-----------------------------------------------------------------------------
(* Properties of the critical sections, under SpecLock *)

\* the threads that mutate the Screen
Producers == {"worker", "stdout", "stderr"}

\* the step changes the Screen
ScreenMutated == screen' # screen \/ applied' # applied

\* C21: every mutation of the Screen by the worker or by a reader thread of a child
\* is made by the thread that holds the lock, and the operation it returned is sent
\* before that thread drops the lock: what has been sent (received or still queued)
\* is at every moment the mutations in the order they were applied, short of at most
\* the one mutation the lock holder has made and is about to send, and is all of them
\* whenever the lock is free.
C21_MutationAndSendUnderOneLock ==
    /\ [](/\ IsPrefix(Log, applied)
          /\ Len(applied) <= Len(Log) + 1
          /\ lock = "free" => Log = applied
          /\ Len(applied) = Len(Log) + 1 =>
                /\ lock \in Producers
                /\ threads[lock].op = Last(applied)
                /\ threads[lock].prog # <<>>
                /\ Next_of(lock).i = "Send")
    /\ [][ScreenMutated =>
             /\ lock \in Producers
             /\ lock' = lock
             /\ threads'[lock].op = Last(applied')
             /\ Len(applied') = Len(applied) + 1]_vars

\* the worker and both reader threads of a child have mutated the Screen, one
\* operation has been received and one is queued, and the lock is free
C21_Witness ==
    /\ lock = "free"
    /\ Len(applied) = 3
    /\ threads["worker"].op # NoOp
    /\ threads["stdout"].op # NoOp
    /\ threads["stderr"].op # NoOp
    /\ frame.received # <<>>
    /\ output_chan # <<>>
    /\ Log = applied

\* C22: a thread that mutates the Screen holds the lock for one mutation (or one
\* read of the values it needs) at a time, and not while it waits for an Action,
\* runs a command's file-system or process calls, or reads a line of a child.
C22_LockHeldForOneStep ==
    \A t \in Producers :
        lock = t =>
            /\ threads[t].prog # <<>>
            /\ Next_of(t).i \notin {"Io", "Exec", "Spawn", "Exit", "Lock"}
            /\ threads[t].held <= 1

\* the part of C22 about blocking: no thread that mutates the Screen holds the lock
\* while it waits for an Action or for the operating system
NoBlockingUnderLock ==
    \A t \in Producers :
        lock = t =>
            /\ threads[t].prog # <<>>
            /\ Next_of(t).i \notin {"Io", "Exec", "Spawn", "Exit", "Lock"}

\* C23: the presentation thread does not hold the lock while a drawing call is in
\* progress.
C23_NoDrawUnderLock ==
    lock = "present" => Next_of("present").i # "Draw"

\* the drawing calls other than the TextEdit are made with the lock free or held
\* by another thread
RowsDrawnOutsideLock ==
    (lock = "present" /\ Next_of("present").i = "Draw") => Next_of("present").what = "text_edit"

\* the step is one the worker takes at a step of the given kinds
WorkerStep(kinds) ==
    /\ At("worker", kinds)
    /\ threads'["worker"].prog = Tail(threads["worker"].prog)

\* the fields of the ShellState a ConfigUpdate has a field for, but for the current
\* directory: each has the update's value when the update has one, else the value it had
MergedFieldwise(update) ==
    /\ shell'.prompt = or_keep(update.prompt, shell.prompt)
    /\ shell'.prompt_color = or_keep(update.prompt_color, shell.prompt_color)
    /\ shell'.text_color = or_keep(update.text_color, shell.text_color)
    /\ shell'.window_title_base = or_keep(update.window_title, shell.window_title_base)
    /\ shell'.shortcuts = or_keep(update.shortcuts, shell.shortcuts)
    /\ shell'.opacity = or_keep(update.opacity, shell.opacity)
    /\ shell'.font_size = or_keep(update.font_size, shell.font_size)
    /\ shell'.directory_color = or_keep(update.directory_color, shell.directory_color)
    /\ mode_definitions' = or_keep(update.mode_definitions, mode_definitions)
    /\ mode' = mode
    /\ shell'.input_buffer = shell.input_buffer

\* C24 as stated: applying a parsed update overwrites every field the update has,
\* the current directory among them when the update names one, keeps every field
\* the update lacks, and changes neither the mode nor the input buffer.
C24_MergeOverwritesExactlyPresent ==
    [][WorkerStep({"Merge"}) =>
         LET update == Next_of("worker").update
         IN  /\ MergedFieldwise(update)
             /\ shell'.current_dir = IF update.default_cwd.some
                                     THEN update.default_cwd.val
                                     ELSE shell.current_dir]_vars

\* C24, amended: applying a parsed update overwrites each of prompt, colors, title
\* base, shortcuts, opacity, font size and mode table that the update has and keeps
\* each that it lacks; the current directory keeps its value when the update names
\* none or when the change of directory failed, and else becomes the directory the
\* operating system reports; the mode and the input buffer are not changed; the full
\* title is rebuilt from the mode and the title base and title_updated is set.
C24_MergeFieldwise ==
    [][WorkerStep({"Merge"}) =>
         LET update == Next_of("worker").update
             actual_cwd == Next_of("worker").actual_cwd
         IN  /\ MergedFieldwise(update)
             /\ ~update.default_cwd.some => shell'.current_dir = shell.current_dir
             /\ shell'.current_dir = or_keep(actual_cwd, shell.current_dir)
             /\ shell'.window_title_full = title_of(mode, shell'.window_title_base)
             /\ shell'.title_updated]_vars

\* an update with colours, shortcuts, opacity, font size and a directory but no
\* prompt, title or mode table has been applied
C24_Witness ==
    /\ shell.prompt = Chars("> ")
    /\ shell.window_title_base = "axiomterm"
    /\ mode_definitions = DefaultModeDefinitions
    /\ shell.prompt_color = GOLD
    /\ shell.text_color = GREEN
    /\ shell.directory_color = RED
    /\ shell.opacity = "0.5"
    /\ shell.font_size = "12.0"
    /\ shell.shortcuts # <<>>
    /\ shell.current_dir = Chars("/tmp")
    /\ shell.title_updated

\* C26: when parse_config fails the worker does one thing before it waits for the
\* next Action: it pushes one RED line and sends its PushLine; no step of that
\* changes a field of the ShellState but the Screen, and the process goes on.
C26_FailedLoadOnlyReports ==
    /\ [](Running /\ threads["worker"].prog # <<>>
            /\ Next_of("worker") = I_IoErr("parse_config") =>
               LET rest == Tail(threads["worker"].prog)
               IN  /\ Len(rest) = 4
                   /\ rest[1] = I_Lock
                   /\ rest[2].i = "Push" /\ rest[2].fg = RED
                   /\ rest[3] = I_Send
                   /\ rest[4] = I_Unlock)
    /\ [][WorkerStep({"Io", "Lock", "Send", "Unlock"}) =>
             /\ UNCHANGED <<screen, shell, mode, mode_definitions, applied>>
             /\ Running']_vars
    /\ [][WorkerStep({"Push"}) =>
             /\ UNCHANGED <<shell, mode, mode_definitions>>
             /\ screen'.lines = Append(screen.lines,
                                       Line_from_string(Next_of("worker").text,
                                                        Colour("worker", Next_of("worker").fg)))
             /\ applied' = Append(applied, PushLine(Last(screen'.lines)))
             /\ Running']_vars

\* a load has failed: its RED line is the one line of the Screen, nothing else of
\* the ShellState has changed, and the worker has gone on to handle the ChangeMode
\* Action sent after it
C26_Witness ==
    /\ Len(applied) = 1
    /\ applied[1].tag = "PushLine"
    /\ applied[1].line # <<>>
    /\ applied[1].line[1].fg = RED
    /\ Len(applied[1].line) > 24
    /\ SubSeq(LineText(applied[1].line), 1, 24) = Chars("Failed to load config at")
    /\ screen.lines = <<applied[1].line>>
    /\ mode = TerminalMode_Normal
    /\ shell = [ShellState_new EXCEPT !.window_title_full = "[NORMAL] axiomterm",
                                      !.title_updated = shell.title_updated]
    /\ mode_definitions = DefaultModeDefinitions
    /\ threads["worker"].prog = <<>>

-----------------------------------------------------------------------------
(* Properties of the worker's loop, under SpecWorker *)

\* the worker's thread is in its loop: waiting for an Action or running a command
InLoop(at) == at \in {"recv", "execute"}

\* C30: the worker leaves its loop only by running the command exit or by finding
\* the Action channel closed; from every other Action, and from every other command
\* whatever it answers, it goes back to waiting for the next Action.
C30_WorkerStopsOnlyOnExitOrClose ==
    [][/\ InLoop(worker.at) /\ ~InLoop(worker'.at) =>
             \/ /\ worker.at = "execute"
                /\ CommandWord(worker.cmd_line) = Chars("exit")
                /\ worker'.at = "exited"
             \/ /\ worker.at = "recv"
                /\ action_chan # <<>>
                /\ Head(action_chan) = Disconnected
                /\ worker'.at = "stopped"
       /\ (worker.at = "execute" /\ worker' # worker
             /\ CommandWord(worker.cmd_line) # Chars("exit")) => worker'.at = "recv"]_vars

\* the part of C30 that holds: a command that answers with an error line sends the
\* worker back to recv, and only exit and the closed channel end the loop otherwise
ErrorsAreNotFatal ==
    [][InLoop(worker.at) /\ ~InLoop(worker'.at) /\ worker'.at # "panicked" =>
             \/ worker.at = "execute" /\ CommandWord(worker.cmd_line) = Chars("exit")
             \/ worker.at = "recv" /\ action_chan # <<>> /\ Head(action_chan) = Disconnected]_vars

-----------------------------------------------------------------------------
(* Properties of the configuration reload, under SpecReload *)

\* two reloads whose Actions were sent in this order
Reloads == {<<i, j>> \in (1..Len(reload.sent)) \X (1..Len(reload.sent)) : i < j}

\* C25: the signals that arrive within one window cause at most one reload: two
\* reloads are at least the window apart, and so are the arrivals of the signals
\* that caused them.
C25_SignalsOfOneWindowReloadOnce ==
    \A p \in Reloads :
        /\ reload.sent[p[2]].at - reload.sent[p[1]].at >= Window
        /\ reload.sent[p[2]].arrived - reload.sent[p[1]].arrived >= Window

\* the part of it that the test of elapsed() maintains: two reload Actions are sent
\* more than the window apart, and none in the first window after construction
ReloadsAreWindowApart ==
    /\ \A p \in Reloads : reload.sent[p[2]].at - reload.sent[p[1]].at > Window
    /\ \A i \in 1..Len(reload.sent) : reload.sent[i].at > Window

\* a signal received within the window of the last reload is dropped: it causes no
\* reload, then or later
SignalDroppedInsideWindow ==
    [][(/\ reload.config_chan # <<>>
        /\ reload'.config_chan = Tail(reload.config_chan)
        /\ reload.now - reload.last_reload <= Window)
       => reload'.sent = reload.sent /\ action_chan' = action_chan]_vars

-----------------------------------------------------------------------------
(* Properties of macro resolution, under SpecMacro *)

\* the value of axiom.macros[name], nil where the globals hold none
Macro_of(globals, name) ==
    LET axiom == Table_get(globals, "axiom")
        macros == IF axiom.type = "Table" THEN Table_get(axiom, "macros") ELSE LuaNil
    IN  IF macros.type = "Table" THEN Table_get(macros, name) ELSE LuaNil

IsActionString(v) == v.type = "String" /\ v.utf8
Parses(v) == Action_from_str(v.s).some
AllParse(strings) == \A k \in 1..Len(strings) : Parses(strings[k])

\* the action strings of the macro's body, where the macro is a function that
\* returns a table
Strings_of(globals, name) ==
    LET macro_val == Macro_of(globals, name)
    IN  IF macro_val.type = "Function" /\ ~macro_val.raises /\ macro_val.returns.type = "Table"
        THEN Some(SelectSeq(macro_val.returns.fields, IsActionString))
        ELSE None

\* the errors the resolution of the macro has a reason to fail with
Failures(globals, name) ==
    LET macro_val == Macro_of(globals, name)
        strings == Strings_of(globals, name)
    IN  (IF macro_val.type # "Function" THEN {"NotFound"} ELSE {})
        \cup (IF macro_val.type = "Function" /\ ~strings.some
              THEN {"InvalidReturnType"} ELSE {})
        \cup (IF strings.some /\ ~AllParse(strings.val)
              THEN {"ActionParseError"} ELSE {})
        \cup (IF strings.some /\ Len(strings.val) > MAX_MACRO_ACTIONS
              THEN {"ActionLimitExceeded"} ELSE {})

\* the Actions a caller of resolve_macro has to emit
Emitted(result) == IF result.ok THEN result.actions ELSE <<>>

\* C27: a resolution that has a reason to fail (the macro is not found, does not
\* return a table, has an unparseable action string anywhere in its body, or has
\* too many) returns an error, which is one of those reasons, and no Action: the
\* Actions parsed before the failing entry are not returned.
C27_FailedResolutionEmitsNothing ==
    engine.resolved.some =>
        LET call == engine.resolved.val
            failures == Failures(call.globals, call.name)
        IN  /\ failures # {} =>
                  /\ ~call.result.ok
                  /\ call.result.error.kind \in failures
                  /\ call.result.error.macro_name = call.name
                  /\ Emitted(call.result) = <<>>
            /\ failures = {} => call.result.ok

\* the body's second string is no Action: the first had been parsed
C27_Witness ==
    /\ engine.resolved.some
    /\ engine.resolved.val.result = Err(ActionParseError("m", Chars("bogus")))
    /\ Parses(Strings_of(engine.resolved.val.globals, "m").val[1])

\* the calls made for one name
CallsOf(name) == SelectSeq(engine.calls, LAMBDA c : c.name = name)

RECURSIVE SumOfCounts(_)
SumOfCounts(calls) ==
    IF calls = <<>> THEN 0
    ELSE (IF Head(calls).ok THEN Head(calls).count ELSE 0) + SumOfCounts(Tail(calls))

RECURSIVE LargestCount(_)
LargestCount(calls) ==
    IF calls = <<>> THEN 0
    ELSE LET rest == LargestCount(Tail(calls))
             this == IF Head(calls).ok THEN Head(calls).count ELSE 0
         IN  IF this >= rest THEN this ELSE rest

\* C28: after any calls of resolve_macro, the metrics of a name hold the number of
\* its calls, the sum and the largest of the action counts of its successful calls,
\* and the error of its last call if that failed, none if it succeeded; a name that
\* was never resolved has no metrics.
C28_MetricsCountTheCalls ==
    \A name \in MacroNames :
        LET calls == CallsOf(name)
            metrics == MacroMetrics_get(engine.invocations, name)
        IN  IF calls = <<>> THEN ~metrics.some
            ELSE /\ metrics.some
                 /\ metrics.val.macro_name = name
                 /\ metrics.val.total_invocations = Len(calls)
                 /\ metrics.val.total_actions_emitted = SumOfCounts(calls)
                 /\ metrics.val.max_actions_emitted = LargestCount(calls)
                 /\ metrics.val.last_error =
                        IF calls[Len(calls)].ok THEN None
                        ELSE Some(calls[Len(calls)].error)

\* a failed call and then a successful one of the same name
C28_Witness ==
    /\ Len(CallsOf("m")) = 2
    /\ ~CallsOf("m")[1].ok
    /\ CallsOf("m")[2].ok
    /\ CallsOf("m")[2].count > 0

\* the macro of the body ["Submit", "Clear"] resolved twice
TwoInvocationsFourActions ==
    (/\ Len(CallsOf("m")) = 2
     /\ \A k \in 1..2 : CallsOf("m")[k] = [name |-> "m", ok |-> TRUE, count |-> 2])
    => /\ engine.invocations["m"].total_invocations = 2
       /\ engine.invocations["m"].total_actions_emitted = 4
       /\ engine.invocations["m"].last_error = None

ParseErrorBeforeTheLimit ==
    engine.resolved.some =>
        LET call == engine.resolved.val
            strings == Strings_of(call.globals, call.name)
        IN  (strings.some /\ strings.val # <<>> /\ ~Parses(strings.val[1]))
              => call.result = Err(ActionParseError(call.name, strings.val[1].s))

-----------------------------------------------------------------------------
(* Properties of the cursor, under SpecCursor *)

\* C31: in every Screen reached by calls of push_line, clear, set_cursor and
\* update_line, cursor.row is at most lines.len().
C31_CursorWithinLines == screen.cursor.row <= Len(screen.lines)

\* what the mutators other than set_cursor maintain: a call that is no set_cursor
\* leaves the cursor alone or, for clear, puts it back at the origin
OnlySetCursorMovesCursor ==
    [][(returned' # returned /\ returned'[Len(returned')].tag # "SetCursor")
       => screen'.cursor \in {screen.cursor, Cursor_default}]_vars

-----------------------------------------------------------------------------
(* Properties of the tokenizer, under SpecTokenize *)

\* The reference tokenizer, by the grammar of a command line:
\*   line   = { whitespace } { token { whitespace } }
\*   token  = piece { piece }
\*   piece  = "'" { any but "'" } [ "'" ]
\*          | '"' { "\" any | any but '"' and "\" } [ '"' ]
\*          | "\" [ any ]
\*          | any but whitespace, quotes and "\"
\* A quote the text ends in is closed by the end of the text.

\* the text of a single-quoted piece whose body starts at i, and where it ends
RECURSIVE Ref_single(_, _, _)
Ref_single(s, i, text) ==
    IF i > Len(s) THEN [text |-> text, next |-> i]
    ELSE IF s[i] = "'" THEN [text |-> text, next |-> i + 1]
    ELSE Ref_single(s, i + 1, Append(text, s[i]))

\* the text of a double-quoted piece whose body starts at i, and where it ends
RECURSIVE Ref_double(_, _, _)
Ref_double(s, i, text) ==
    IF i > Len(s) THEN [text |-> text, next |-> i]
    ELSE IF s[i] = "\"" THEN [text |-> text, next |-> i + 1]
    ELSE IF s[i] = "\\"
    THEN IF i + 1 > Len(s) THEN [text |-> text, next |-> i + 1]
         ELSE Ref_double(s, i + 2, Append(text, s[i + 1]))
    ELSE Ref_double(s, i + 1, Append(text, s[i]))

\* the token that starts at i, and where it ends
RECURSIVE Ref_token(_, _, _)
Ref_token(s, i, text) ==
    IF i > Len(s) \/ is_whitespace(s[i]) THEN [text |-> text, next |-> i]
    ELSE IF s[i] = "'"
    THEN LET piece == Ref_single(s, i + 1, <<>>)
         IN  Ref_token(s, piece.next, text \o piece.text)
    ELSE IF s[i] = "\""
    THEN LET piece == Ref_double(s, i + 1, <<>>)
         IN  Ref_token(s, piece.next, text \o piece.text)
    ELSE IF s[i] = "\\"
    THEN IF i + 1 > Len(s) THEN [text |-> text, next |-> i + 1]
         ELSE Ref_token(s, i + 2, Append(text, s[i + 1]))
    ELSE Ref_token(s, i + 1, Append(text, s[i]))

\* the tokens of the text from i on
RECURSIVE Ref_tokens(_, _)
Ref_tokens(s, i) ==
    IF i > Len(s) THEN <<>>
    ELSE IF is_whitespace(s[i]) THEN Ref_tokens(s, i + 1)
    ELSE LET token == Ref_token(s, i, <<>>)
         IN  <<token.text>> \o Ref_tokens(s, token.next)

\* C32: tokenize_command splits every command line as the reference tokenizer
\* does: unquoted, unescaped whitespace separates tokens and runs of it yield no
\* empty token; whitespace in single quotes, in double quotes or after a backslash
\* stays in the token; the delimiting quotes and the escaping backslash are left
\* out; a single quote in double quotes is literal; an empty quoted pair is an
\* empty token.
C32_TokenizerMatchesReference ==
    tokenized.called => tokenized.tokens = Ref_tokens(tokenized.input, 1)

\* the line "a ' -- a double-quoted token that holds whitespace and a single quote
C32_Witness ==
    /\ tokenized.called
    /\ tokenized.input = <<"\"", "a", " ", "'", "\"">>
    /\ tokenized.tokens = << <<"a", " ", "'">> >>

\* the cases of the tests of main.rs, within the lengths of the model
TokenizerTestCases ==
    /\ tokenize_command(Chars("ls -la")) = <<Chars("ls"), Chars("-la")>>
    /\ tokenize_command(Chars("echo \"hello world\"")) = <<Chars("echo"), Chars("hello world")>>
    /\ tokenize_command(Chars("echo 'hello world'")) = <<Chars("echo"), Chars("hello world")>>
    /\ tokenize_command(Chars("echo hello\\ world")) = <<Chars("echo"), Chars("hello world")>>
    /\ tokenize_command(Chars("echo \"foo 'bar'\"")) = <<Chars("echo"), Chars("foo 'bar'")>>
    /\ tokenize_command(Chars("echo \"\"")) = <<Chars("echo"), <<>>>>

-----------------------------------------------------------------------------
(* Properties of the geometry checks of a draw pass, under Spec *)

\* the rows of the Screen a pass draws
RowsOf(lines) == 0..(Len(lines) - 1)

\* C33: a draw pass that finds the viewport dimensions or the scroll origin
\* different from those of the previous pass discards every cache entry and
\* rebuilds every row; a pass that finds both the same keeps the entry of every
\* row the Screen still has.
C33_GeometryChangeDiscardsAll ==
    [][\A d \in DimsInputs, o \in OriginInputs :
        DrawPass(d, o) =>
            LET checked == CacheChecked(renderer, d, o, screen.lines)
            IN  /\ ~GeometryKept(d, o) =>
                      /\ NoEntryPresent(checked)
                      /\ surface'.laid_out = RowsOf(screen.lines)
                /\ GeometryKept(d, o) =>
                      \A i \in 1..Len(checked) :
                          i <= Len(renderer.screen_cache) => checked[i] = renderer.screen_cache[i]]_vars

\* a pass right after a pass, over the same rows, has laid out every one of them:
\* the geometry had changed
C33_Witness ==
    /\ surface.pass = "draw" /\ surface.repeated
    /\ last_drawn # <<>>
    /\ surface.laid_out = RowsOf(last_drawn)

-----------------------------------------------------------------------------
(* Properties of the mode table, under SpecWorker *)

ModeDefined(m, definitions) == find_definition(definitions, m).some

\* C34: in every reachable state the mode table holds a ModeDefinition of the
\* active mode: no ChangeMode Action and no configuration load leaves the active
\* mode without one.
C34_ActiveModeDefined == ModeDefined(mode, mode_definitions)

\* what follows once the active mode has no definition: outside Insert mode no
\* input event is mapped to any Action, so no input changes the mode again
UndefinedModeMapsNothing ==
    (~ModeDefined(mode, mode_definitions) /\ mode # TerminalMode_Insert)
    => \A event \in EventInputs \cup {InputEvent_Key("I", FALSE, FALSE, FALSE),
                                       InputEvent_Key("Escape", FALSE, FALSE, FALSE)} :
           ~map_input(mode_definitions, event, mode).some

-----------------------------------------------------------------------------
(* Properties of what a draw pass paints, under Spec *)

\* the shapes a pass hands to the painter are those of the rows it was given
PaintedFromSnapshot(curr_dims, curr_origin) ==
    LET d == draw(renderer, curr_dims, curr_origin, screen)
    IN  \A k \in 1..Len(d.painted) :
            d.painted[k].shapes =
                Shapes(screen.lines[d.painted[k].row + 1], d.painted[k].row, curr_origin)

\* C35: in every draw pass the shapes emitted for row i were computed from the
\* content row i has in the Screen snapshot being drawn; an entry of the cache
\* built from older content is never drawn, whatever the worker did between
\* the drain and the snapshot
C35_DrawnFromSnapshot ==
    [][\A curr_dims \in DimsInputs, curr_origin \in OriginInputs :
          DrawPass(curr_dims, curr_origin) => PaintedFromSnapshot(curr_dims, curr_origin)]_vars

\* a pass that starts with every operation handled paints the rows it was given
DrainedPassDrawsSnapshot ==
    [][\A curr_dims \in DimsInputs, curr_origin \in OriginInputs :
          (output_chan = <<>> /\ DrawPass(curr_dims, curr_origin))
              => PaintedFromSnapshot(curr_dims, curr_origin)]_vars

-----------------------------------------------------------------------------
(* Properties of the input part of update, under SpecInput *)

\* C36: an input event captured after an event whose binding is ChangeMode(m)
\* is mapped with the bindings of mode m, in the same frame and in a later frame
\* alike, whether or not the worker has handled the ChangeMode Action yet
C36_MappedWithRequestedMode ==
    (dispatched.call = "update" /\ dispatched.mapped.some)
        => dispatched.mapped.val.current_mode = dispatched.mapped.val.expected

\* every event of a frame is mapped with the mode ShellState held when the
\* frame took its snapshot, and the first event of the first frame with the
\* mode of startup
MappedWithSnapshotMode ==
    [][Update_MapInput =>
          /\ dispatched'.mapped.val.current_mode = dispatched.current_mode
          /\ dispatched'.mapped.val.action =
                map_input(mode_definitions, Head(dispatched.events), dispatched.current_mode)
          /\ (dispatched.frames = 1 /\ dispatched.position = 0)
                => dispatched'.mapped.val.current_mode = dispatched'.mapped.val.expected]_vars

-----------------------------------------------------------------------------
(* Properties of the input buffer, under SpecEdit *)

\* every frame is drawn and every Action sent is handled
EditsSettled ==
    /\ dispatched.call = "edit"
    /\ dispatched.at = "input"
    /\ action_chan = <<>>

\* C37: in Insert mode each editing input is applied to the input buffer exactly
\* once, the widget's edit and the worker's handling counted together: every
\* typed character grows the buffer by exactly one character and every
\* Backspace press removes at most one
C37_EditsAppliedOnce ==
    EditsSettled =>
        /\ Len(shell.input_buffer) <= dispatched.typed
        /\ Len(shell.input_buffer) >= dispatched.typed - dispatched.erased

\* while the TextEdit has not had the focus the worker is the only writer, and
\* each input is applied once
UnfocusedEditsAppliedOnce ==
    (EditsSettled /\ dispatched.frames = 1) =>
        /\ Len(shell.input_buffer) <= dispatched.typed
        /\ Len(shell.input_buffer) >= dispatched.typed - dispatched.erased

-----------------------------------------------------------------------------
(* Properties of the Mutex of the ShellState, under SpecLockLive *)

\* the thread is in lock(): its next step is the return of the call
LockWaiting(t) == At(t, {"Lock"})

\* no thread calls lock() while it holds the guard of an earlier call
NoReacquire == \A t \in LockThreads : LockWaiting(t) => lock # t

\* a thread in lock() gets the Mutex, unless the process exits first
WaiterAcquires == \A t \in LockThreads : LockWaiting(t) ~> (lock = t \/ ~Running)

-----------------------------------------------------------------------------
(* Properties of the window title, under SpecLock *)

\* the full title is the active mode's name in brackets, a space, the title base
TitleMatchesMode ==
    shell.window_title_full = "[" \o TerminalMode_name(mode) \o "] " \o shell.window_title_base

\* the worker's step is the write of the ChangeMode arm or of a successful config load
TitleRebuilt == At("worker", {"SetMode", "Merge"}) /\ Lock_Write("worker")

-----------------------------------------------------------------------------
(* Properties of the config reload, under SpecReloadLive *)

\* the instants of a run: time passes in steps of ElapseInputs
SignalTimes == {t \in 0..MaxTime : t % 100 = 0}

\* the watcher has sent a signal at the instant t and update has not received it yet
SignalPending(t) ==
    \E k \in 1..Len(reload.config_chan) : reload.config_chan[k] = t

\* a RunCommand("config load") was sent at the instant t or later
ReloadSentSince(t) ==
    \E i \in 1..Len(reload.sent) : reload.sent[i].at >= t

\* C40: every config-change signal is eventually followed by a
\* RunCommand("config load") Action sent at or after the time of that signal;
\* a signal consumed inside the rate-limit window, the first window after
\* startup included, is not lost
C40_SignalEventuallyReloads ==
    \A t \in SignalTimes : SignalPending(t) ~> ReloadSentSince(t)

\* every signal is received by some frame
SignalEventuallyReceived ==
    \A t \in SignalTimes : SignalPending(t) ~> ~SignalPending(t)

====
